---------------------------- MODULE Spec2Model ----------------------------
(***************************************************************************)
(* prism-ts: the SQL-type-to-TypeScript mapper and the declaration         *)
(* generator (class TypeGenerator), and the client: BaseClient.request,    *)
(* the CRUD operations and PrismTs.  Text is modelled by TLA+ strings,     *)
(* read character by character with Len, SubSeq and \o, so that every      *)
(* conversion (lowercasing, the regular expressions, trimming, PascalCase) *)
(* is computed the way the code computes it.                               *)
(***************************************************************************)
EXTENDS Integers, Sequences, FiniteSets, TLC

VARIABLES
    sqlType,      \* argument of the last mapSqlTypeToTs call (NoCall before any)
    sampleData,   \* its optional second argument
    tsType,       \* what that call returned
    fn,           \* FunctionMetadata of the last generateFunctionTypes call
    fnSuffix,     \* its suffix argument
    fnCode,       \* the text that call returned
    schema,       \* SchemaMetadata the generateSchemaTypes calls are made with
    now,          \* the wall clock read by `new Date()`, in milliseconds
    history,      \* what each generateSchemaTypes call made so far returned
    tableArg,     \* TableMetadata (ViewMetadata) the table and view generators get
    tableCode,    \* what generateTableInterface(tableArg) returned
    queryCode,    \* what generateQueryInterface(tableArg) returned
    viewCode,     \* what generateViewInterface(tableArg) returned
    enumArg,      \* EnumMetadata of the generateEnum call
    enumCode,     \* what generateEnum(enumArg) returned
    strArg,       \* argument of the toPascalCase call
    pascal,       \* what toPascalCase(strArg) returned
    schemas,      \* the SchemaMetadata[] argument of generateTypes
    fs,           \* the file system at outputDir: its kind and its entries
    pc,           \* where the generateTypes call stands
    cursor,       \* how many schemas its loop has processed
    thrown,       \* the error generateTypes rejected with (NoError if none)
    written,      \* the file names Deno.writeTextFile wrote in this call, in order
    reqArgs,      \* method and options.timeout of the BaseClient.request call
    reqPc,        \* where that call stands
    timer,        \* the timer made by setTimeout(() => controller.abort(), timeout)
    elapsed,      \* milliseconds since the call was made
    response,     \* the Response that fetch resolved to
    outcome,      \* how the promise of request settled
    idArg,        \* argument of the findOne call
    crudPc,       \* where that call stands
    sentParams,   \* the query parameters its GET carried
    found,        \* how the promise of findOne settled
    initialized,  \* PrismTs.initialized
    initPromise,  \* PrismTs.initPromise: 0 for null, else the _initialize() call
    cachedSchemas,\* PrismTs.schemas
    loadedBy,     \* which _initialize() call assigned PrismTs.schemas (0: none)
    inits,        \* the _initialize() calls made, each with its schema fetch
    clears,       \* the clearCache() calls made
    calls,        \* the calls of the public methods made, with their results
    schemaNameArg,\* the schemaName argument those calls are made with
    tableNameArg  \* their tableName argument

vars == <<sqlType, sampleData, tsType, fn, fnSuffix, fnCode, schema, now, history,
          tableArg, tableCode, queryCode, viewCode, enumArg, enumCode, strArg,
          pascal,
          schemas, fs, pc, cursor, thrown, written,
          reqArgs, reqPc, timer, elapsed, response, outcome,
          idArg, crudPc, sentParams, found,
          initialized, initPromise, cachedSchemas, loadedBy, inits, clears, calls,
          schemaNameArg, tableNameArg>>

mapperVars == <<sqlType, sampleData, tsType>>
functionVars == <<fn, fnSuffix, fnCode>>
schemaVars == <<schema, now, history>>
tableVars == <<tableArg, tableCode, queryCode, viewCode>>
nameVars == <<enumArg, enumCode, strArg, pascal>>
typesVars == <<schemas, fs, pc, cursor, thrown, written>>
generatorVars == <<mapperVars, functionVars, schemaVars, tableVars, nameVars, typesVars>>
requestVars == <<reqArgs, reqPc, timer, elapsed, response, outcome>>
crudVars == <<idArg, crudPc, sentParams, found>>
prismVars == <<initialized, initPromise, cachedSchemas, loadedBy, inits, clears,
               calls, schemaNameArg, tableNameArg>>
clientVars == <<requestVars, crudVars, prismVars>>

\* JavaScript's null and undefined, and the marker of "no call made yet": three
\* values that are no text of the inputs or outputs.
Null == "<<null>>"
Undefined == "<<undefined>>"
NoCall == "<<no call>>"

-----------------------------------------------------------------------------
(* Bounds of the model *)

\* how many trailing "[]" markers an input of mapSqlTypeToTs carries
MaxArrayDepth == 2
\* how many parameters a FunctionMetadata of the inputs has
MaxParams == 2
\* how many milliseconds the clock advances
MaxClock == 2
\* how many generateSchemaTypes calls a run makes
MaxCalls == 2
\* how many columns a TableMetadata of the inputs has
MaxColumns == 2
\* how many values an EnumMetadata of the inputs has
MaxValues == 2
\* how many words an argument of toPascalCase is made of
MaxWords == 2
\* how many schemas a generateTypes call is given
MaxSchemas == 2
\* how many records an answer of the server holds
MaxRows == 2
\* how many times the clock of a request advances, by half the default timeout
MaxAdvances == 3
\* how many calls of its public methods a PrismTs instance gets
MaxOps == 2
\* how many clearCache() calls it gets
MaxClears == 1

-----------------------------------------------------------------------------
(* Strings *)

Min(S) == CHOOSE x \in S : \A y \in S : x <= y
Max(S) == CHOOSE x \in S : \A y \in S : x >= y

\* str.charAt(i - 1): the empty string outside the string
Char(s, i) == IF 1 <= i /\ i <= Len(s) THEN SubSeq(s, i, i) ELSE ""

\* str.slice(i - 1): the rest of s from its i-th character
From(s, i) == SubSeq(s, i, Len(s))

startsWith(s, p) == Len(p) <= Len(s) /\ SubSeq(s, 1, Len(p)) = p
endsWith(s, p) == Len(p) <= Len(s) /\ SubSeq(s, Len(s) - Len(p) + 1, Len(s)) = p

UpperAlphabet == "ABCDEFGHIJKLMNOPQRSTUVWXYZ"
LowerAlphabet == "abcdefghijklmnopqrstuvwxyz"
Digits == "0123456789"

IndexIn(c, alphabet) ==
    LET hits == {i \in 1..Len(alphabet) : Char(alphabet, i) = c}
    IN  IF hits = {} THEN 0 ELSE Min(hits)

CharsOf(alphabet) == {Char(alphabet, i) : i \in 1..Len(alphabet)}
DigitChars == CharsOf(Digits)
LowerChars == CharsOf(LowerAlphabet)
UpperChars == CharsOf(UpperAlphabet)

\* the regular-expression classes \d, [a-z], [A-Z] and \s (also what trim() removes)
IsDigit(c) == c \in DigitChars
IsLower(c) == c \in LowerChars
IsUpper(c) == c \in UpperChars
IsSpace(c) == c \in {" ", "\t", "\n", "\r"}

LowerOfUpper == [c \in UpperChars |-> Char(LowerAlphabet, IndexIn(c, UpperAlphabet))]
UpperOfLower == [c \in LowerChars |-> Char(UpperAlphabet, IndexIn(c, LowerAlphabet))]

charToLower(c) == IF IsUpper(c) THEN LowerOfUpper[c] ELSE c
charToUpper(c) == IF IsLower(c) THEN UpperOfLower[c] ELSE c

RECURSIVE toLowerCase(_)
toLowerCase(s) ==
    IF s = "" THEN "" ELSE charToLower(Char(s, 1)) \o toLowerCase(From(s, 2))

RECURSIVE toUpperCase(_)
toUpperCase(s) ==
    IF s = "" THEN "" ELSE charToUpper(Char(s, 1)) \o toUpperCase(From(s, 2))

\* String.prototype.trim
trim(s) ==
    LET keep == {i \in 1..Len(s) : ~IsSpace(Char(s, i))}
    IN  IF keep = {} THEN "" ELSE SubSeq(s, Min(keep), Max(keep))

AllDigits(s) == \A i \in 1..Len(s) : IsDigit(Char(s, i))

\* /\(\d+\)/ matched at position i of s: the position of the closing ")", else 0
ParenDigitsEnd(s, i) ==
    LET ends == {j \in (i + 2)..Len(s) :
                    Char(s, j) = ")" /\ AllDigits(SubSeq(s, i + 1, j - 1))}
    IN  IF Char(s, i) = "(" /\ ends # {} THEN Min(ends) ELSE 0

\* s.replace(/\(\d+\)/, ""): the pattern has no g flag, so only the leftmost
\* match is removed
replaceParenDigits(s) ==
    LET starts == {i \in 1..Len(s) : ParenDigitsEnd(s, i) # 0}
    IN  IF starts = {} THEN s
        ELSE LET i == Min(starts)
             IN  SubSeq(s, 1, i - 1) \o From(s, ParenDigitsEnd(s, i) + 1)

-----------------------------------------------------------------------------
(* SQL_TYPE_MAPPINGS and its regular expressions *)

\* The shapes of the table's patterns, each over a literal type name:
\*   exact      /^lit$/
\*   length     /^lit(\(\d+\))?$/
\*   precision  /^lit(\(\d+,\s*\d+\))?$/
\*   temporal   /^lit(\(\d+\))?( with(out)? time zone)?$/
\*   any        /.*/
Pattern(kind, lit) == [kind |-> kind, lit |-> lit]
Mapping(kind, lit, ts) == [sqlPattern |-> Pattern(kind, lit), tsType |-> ts]

SQL_TYPE_MAPPINGS == <<
    Mapping("exact", "smallint", "number"),
    Mapping("exact", "integer", "number"),
    Mapping("exact", "bigint", "number"),
    Mapping("precision", "decimal", "number"),
    Mapping("precision", "numeric", "number"),
    Mapping("exact", "real", "number"),
    Mapping("exact", "double precision", "number"),
    Mapping("exact", "serial", "number"),
    Mapping("exact", "bigserial", "number"),
    Mapping("length", "varchar", "string"),
    Mapping("length", "character varying", "string"),
    Mapping("length", "char", "string"),
    Mapping("exact", "text", "string"),
    Mapping("exact", "boolean", "boolean"),
    Mapping("exact", "bool", "boolean"),
    Mapping("temporal", "timestamp", "string"),
    Mapping("exact", "date", "string"),
    Mapping("temporal", "time", "string"),
    Mapping("exact", "uuid", "string"),
    Mapping("exact", "json", "Record<string, unknown>"),
    Mapping("exact", "jsonb", "Record<string, unknown>"),
    Mapping("exact", "bytea", "string"),
    Mapping("exact", "inet", "string"),
    Mapping("exact", "cidr", "string"),
    Mapping("exact", "macaddr", "string"),
    Mapping("exact", "point", "string"),
    Mapping("exact", "line", "string"),
    Mapping("exact", "enum", "string"),
    Mapping("any", "", "unknown") >>

\* (\(\d+\))$ : a whole string of the form "(" digits ")"
IsLengthGroup(s) ==
    Len(s) >= 3 /\ Char(s, 1) = "(" /\ Char(s, Len(s)) = ")"
    /\ AllDigits(SubSeq(s, 2, Len(s) - 1))

\* (\(\d+,\s*\d+\))$ : "(" digits "," whitespace* digits ")"
IsPrecisionGroup(s) ==
    Len(s) >= 5 /\ Char(s, 1) = "(" /\ Char(s, Len(s)) = ")"
    /\ \E c \in 3..(Len(s) - 2) :
          /\ Char(s, c) = ","
          /\ AllDigits(SubSeq(s, 2, c - 1))
          /\ \E d \in (c + 1)..(Len(s) - 1) :
                /\ \A k \in (c + 1)..(d - 1) : IsSpace(Char(s, k))
                /\ AllDigits(SubSeq(s, d, Len(s) - 1))

\* ( with(out)? time zone)?$
IsTimeZoneGroup(s) == s \in {"", " with time zone", " without time zone"}

\* The temporal patterns without their time-zone group:
\* /^lit(\(\d+\))?$/ in place of /^lit(\(\d+\))?( with(out)? time zone)?$/.
RegExpTest_NoTimeZone(pattern, s) ==
    LET rest == From(s, Len(pattern.lit) + 1)
    IN  CASE pattern.kind = "exact" -> s = pattern.lit
          [] pattern.kind \in {"length", "temporal"} ->
                startsWith(s, pattern.lit) /\ (rest = "" \/ IsLengthGroup(rest))
          [] pattern.kind = "precision" ->
                startsWith(s, pattern.lit) /\ (rest = "" \/ IsPrecisionGroup(rest))
          [] pattern.kind = "any" -> TRUE

\* mapping.sqlPattern.test(s)
RegExpTest(pattern, s) ==
    LET rest == From(s, Len(pattern.lit) + 1)
    IN  CASE pattern.kind = "exact" -> s = pattern.lit
          [] pattern.kind = "length" ->
                startsWith(s, pattern.lit) /\ (rest = "" \/ IsLengthGroup(rest))
          [] pattern.kind = "precision" ->
                startsWith(s, pattern.lit) /\ (rest = "" \/ IsPrecisionGroup(rest))
          [] pattern.kind = "temporal" ->
                startsWith(s, pattern.lit)
                /\ \E k \in 0..Len(rest) :
                      /\ k = 0 \/ IsLengthGroup(SubSeq(rest, 1, k))
                      /\ IsTimeZoneGroup(From(rest, k + 1))
          [] pattern.kind = "any" -> TRUE

-----------------------------------------------------------------------------
(* TypeGenerator.mapSqlTypeToTs *)

\* new ArrayType(itemType).toString()
ArrayType_toString(itemType) == itemType \o "[]"

\* new JsonType(sampleData).toString()
JsonType_toString(data) == "Record<string, unknown>"

\* sqlType.toLowerCase().replace(/\(\d+\)/, "").trim()
normalizedTypeOf(s) == trim(replaceParenDigits(toLowerCase(s)))

\* The entries of SQL_TYPE_MAPPINGS whose pattern matches, by position.
MatchingEntries(normalizedType) ==
    {i \in 1..Len(SQL_TYPE_MAPPINGS) :
        RegExpTest(SQL_TYPE_MAPPINGS[i].sqlPattern, normalizedType)}

\* A lookup that tries the specific entries only and returns nothing when none
\* of them matches.
MatchMappings_NoFallback(normalizedType) ==
    LET hits == MatchingEntries(normalizedType) \ {Len(SQL_TYPE_MAPPINGS)}
    IN  IF hits = {} THEN Undefined ELSE SQL_TYPE_MAPPINGS[Min(hits)].tsType

\* A lookup in which a later matching entry overrides an earlier one.
MatchMappings_LastMatch(normalizedType) ==
    LET hits == MatchingEntries(normalizedType)
    IN  IF hits = {} THEN "unknown" ELSE SQL_TYPE_MAPPINGS[Max(hits)].tsType

\* for (const mapping of SQL_TYPE_MAPPINGS) if (test) return mapping.tsType;
\* return "unknown"
MatchMappings(normalizedType) ==
    LET hits == MatchingEntries(normalizedType)
    IN  IF hits = {} THEN "unknown" ELSE SQL_TYPE_MAPPINGS[Min(hits)].tsType

RECURSIVE mapSqlTypeToTs(_, _)
mapSqlTypeToTs(s, data) ==
    LET normalizedType == normalizedTypeOf(s)
    IN  IF endsWith(normalizedType, "[]")
        THEN ArrayType_toString(
                 mapSqlTypeToTs(SubSeq(normalizedType, 1, Len(normalizedType) - 2),
                                Undefined))
        ELSE IF normalizedType = "jsonb" \/ normalizedType = "json"
        THEN JsonType_toString(data)
        ELSE MatchMappings(normalizedType)

-----------------------------------------------------------------------------
(* Inputs of mapSqlTypeToTs *)

\* The type names of the reference table, and names no entry knows.
NumericNames == {"smallint", "integer", "bigint", "decimal", "numeric", "real",
                 "double precision", "serial", "bigserial"}
StringNames == {"char", "varchar", "character varying", "text", "uuid", "bytea",
                "inet", "cidr", "macaddr", "point", "line", "enum", "date",
                "timestamp", "timestamp with time zone",
                "timestamp without time zone", "time", "time with time zone",
                "time without time zone"}
BooleanNames == {"boolean", "bool"}
JsonNames == {"json", "jsonb"}
UnknownNames == {"", "unknown_type", "geometry", "int", "timestamptz"}
TypeNames ==
    NumericNames \cup StringNames \cup BooleanNames \cup JsonNames \cup UnknownNames

\* Parenthesized precision / length suffixes: (n) and (p,s).
LengthSuffixes == {"(1)", "(255)"}
PrecisionSuffixes == {"(10,2)", "(16, 4)"}
Suffixes == LengthSuffixes \cup PrecisionSuffixes

\* whitespace before and after the type
Padding == {<<"", "">>, <<" ", "\t ">>}
SampleValues == {Undefined, "{\"a\": 1}"}

RECURSIVE ArrayMarkers(_)
ArrayMarkers(n) == IF n = 0 THEN "" ELSE "[]" \o ArrayMarkers(n - 1)

-----------------------------------------------------------------------------
(* TypeGenerator.toPascalCase *)

IsAlnum(c) == IsDigit(c) \/ IsLower(c) \/ IsUpper(c)

\* str.split(/[^a-zA-Z0-9]+/): the pieces between the maximal runs of other
\* characters; a run at either end leaves an empty piece there
RECURSIVE splitNonAlnum(_)
splitNonAlnum(s) ==
    LET delims == {i \in 1..Len(s) : ~IsAlnum(Char(s, i))}
    IN  IF delims = {} THEN <<s>>
        ELSE LET i == Min(delims)
                 later == {j \in (i + 1)..Len(s) : IsAlnum(Char(s, j))}
                 j == IF later = {} THEN Len(s) + 1 ELSE Min(later)
             IN  <<SubSeq(s, 1, i - 1)>> \o splitNonAlnum(From(s, j))

\* A capitalization that leaves the rest of the word as it is.
capitalizeWord_KeepRest(word) == charToUpper(Char(word, 1)) \o From(word, 2)

\* word.charAt(0).toUpperCase() + word.slice(1).toLowerCase()
capitalizeWord(word) == charToUpper(Char(word, 1)) \o toLowerCase(From(word, 2))

\* words.join("")
RECURSIVE joinStrings(_)
joinStrings(words) ==
    IF words = <<>> THEN "" ELSE Head(words) \o joinStrings(Tail(words))

toPascalCase(str) ==
    LET words == splitNonAlnum(str)
    IN  joinStrings([i \in 1..Len(words) |-> capitalizeWord(words[i])])

-----------------------------------------------------------------------------
(* TypeGenerator.generateFunctionTypes *)

\* An optional array (return_columns?: ReturnColumn[] | null): absent, or its items.
AbsentArray == [isNull |-> TRUE, items |-> <<>>]
PresentArray(items) == [isNull |-> FALSE, items |-> items]

\* JavaScript truthiness of an optional string
Truthy(v) == v # Null /\ v # Undefined /\ v # ""

\* A filter that keeps the IN parameters only.
IsInputParam_InOnly(param) == param.mode = "IN"

\* fn.parameters.filter(param => param.mode === "IN" || param.mode === "INOUT")
IsInputParam(param) == param.mode = "IN" \/ param.mode = "INOUT"
inputParamsOf(f) == SelectSeq(f.parameters, IsInputParam)

\* fn.parameters.filter(param => param.mode === "OUT" || param.mode === "INOUT")
IsOutputParam(param) == param.mode = "OUT" \/ param.mode = "INOUT"
outParamsOf(f) == SelectSeq(f.parameters, IsOutputParam)

\* `  ${param.name}${nullable}: ${tsType};\n` with nullable from has_default
ParamFieldLine(param) ==
    "  " \o param.name \o (IF param.has_default THEN "?" ELSE "") \o ": "
         \o mapSqlTypeToTs(param.type, Undefined) \o ";\n"

\* `  ${col.name}: ${tsType};\n`
RequiredFieldLine(col) ==
    "  " \o col.name \o ": " \o mapSqlTypeToTs(col.type, Undefined) \o ";\n"

\* the input parameters interface
ParamsCode(f, baseName) ==
    LET inputParams == inputParamsOf(f)
    IN  IF Len(f.parameters) > 0 /\ Len(inputParams) > 0
        THEN "export interface " \o baseName \o "Params {\n"
             \o joinStrings([i \in 1..Len(inputParams) |->
                                ParamFieldLine(inputParams[i])])
             \o "}\n\n"
        ELSE ""

\* fn.return_type && fn.return_type.toLowerCase() !== "void"
HasReturnType(f) == Truthy(f.return_type) /\ toLowerCase(f.return_type) # "void"

\* fn.return_columns && fn.return_columns.length > 0
HasReturnColumns(f) == ~f.return_columns.isNull /\ Len(f.return_columns.items) > 0

\* The branch of the result type: the return type is tested first, and the
\* return columns only inside it.
ResultBranch(f) ==
    IF HasReturnType(f)
    THEN (IF HasReturnColumns(f) THEN "row" ELSE "scalar")
    ELSE IF f.object_type = "procedure"
            /\ (~Truthy(f.return_type) \/ toLowerCase(f.return_type) = "void")
    THEN "procedure"
    ELSE "none"

\* the ResultRow interface and the Result type over it
RowResultCode(f, baseName) ==
    LET cols == f.return_columns.items
    IN  "export interface " \o baseName \o "ResultRow {\n"
        \o joinStrings([i \in 1..Len(cols) |-> RequiredFieldLine(cols[i])])
        \o "}\n\n"
        \o (IF f.type = "set" \/ f.type = "table"
            THEN "export type " \o baseName \o "Result = " \o baseName
                 \o "ResultRow[];\n"
            ELSE "export type " \o baseName \o "Result = " \o baseName
                 \o "ResultRow | null;\n")

\* A scalar result that is never wrapped as an array.
ScalarResultCode_NeverArray(f, baseName) ==
    "export type " \o baseName \o "Result = "
    \o mapSqlTypeToTs(f.return_type, Undefined) \o " | null;\n"

\* scalar or setof scalar return type
ScalarResultCode(f, baseName) ==
    LET resultTsType == mapSqlTypeToTs(f.return_type, Undefined)
    IN  IF f.type = "set"
        THEN "export type " \o baseName \o "Result = " \o resultTsType \o "[];\n"
        ELSE "export type " \o baseName \o "Result = " \o resultTsType
             \o " | null;\n"

\* A procedure result that lists every parameter, inputs included.
ProcedureResultCode_AllParams(f, baseName) ==
    IF Len(f.parameters) > 0
    THEN "export interface " \o baseName \o "Result {\n"
         \o joinStrings([i \in 1..Len(f.parameters) |->
                            RequiredFieldLine(f.parameters[i])])
         \o "}\n\n"
    ELSE "export type " \o baseName \o "Result = void;\n"

\* the OUT / INOUT parameters of a procedure form its result
ProcedureResultCode(f, baseName) ==
    LET outParams == outParamsOf(f)
    IN  IF Len(outParams) > 0
        THEN "export interface " \o baseName \o "Result {\n"
             \o joinStrings([i \in 1..Len(outParams) |->
                                RequiredFieldLine(outParams[i])])
             \o "}\n\n"
        ELSE "export type " \o baseName \o "Result = void;\n"

\* Reading a property of null or undefined throws a TypeError.
TypeError == "<<TypeError>>"
IsNullish(v) == v = Null \/ v = Undefined

\* A generator that reads return_type.toLowerCase() and return_columns.length
\* without testing the item first.
FunctionTypesThrows_Unguarded(f) ==
    \/ IsNullish(f.return_type)
    \/ f.return_columns.isNull

\* The property reads generateFunctionTypes makes on optional items, each
\* behind its test: return_type.toLowerCase() behind `fn.return_type &&` and
\* `!fn.return_type ||`, return_columns.length behind `fn.return_columns &&`
\* inside the return-type branch. The call throws when a read is reached on
\* null or undefined.
FunctionTypesThrows(f) ==
    \/ Truthy(f.return_type) /\ IsNullish(f.return_type)
    \/ HasReturnType(f) /\ ~f.return_columns.isNull /\ f.return_columns.isNull

generateFunctionTypes(f, suffix) ==
    LET baseName == toPascalCase(f.name) \o suffix
        branch == ResultBranch(f)
    IN  ParamsCode(f, baseName)
        \o (CASE branch = "row" -> RowResultCode(f, baseName)
              [] branch = "scalar" -> ScalarResultCode(f, baseName)
              [] branch = "procedure" -> ProcedureResultCode(f, baseName)
              [] OTHER -> "")

-----------------------------------------------------------------------------
(* Inputs of generateFunctionTypes *)

\* a parameter without default_value, and one with it
Param(name, type, mode, hasDefault) ==
    [name |-> name, type |-> type, mode |-> mode, has_default |-> hasDefault,
     default_value |-> Undefined]
ParamWithDefault(name, type, mode, value) ==
    [name |-> name, type |-> type, mode |-> mode, has_default |-> TRUE,
     default_value |-> value]
Column(name, type) == [name |-> name, type |-> type]

ParamPool == {
    Param("p_id", "uuid", "IN", FALSE),
    ParamWithDefault("p_limit", "integer[]", "IN", "'{10}'"),
    Param("o_count", "integer", "OUT", FALSE),
    Param("io_total", "numeric(10,2)", "INOUT", FALSE),
    Param("v_args", "text[]", "VARIADIC", FALSE) }

ParamLists == UNION {[1..n -> ParamPool] : n \in 0..MaxParams}

FunctionNames == {"get_users", "update_status"}
FunctionKinds == {"scalar", "set", "table"}
ObjectTypes == {"function", "procedure"}
ReturnTypes == {Null, "", "void", "VOID", "json", "SETOF record"}
ReturnColumnLists == {
    AbsentArray,
    PresentArray(<<>>),
    PresentArray(<<Column("id", "uuid"), Column("username", "varchar")>>) }
NameSuffixes == {"", "Procedure"}

FunctionMetadata(name, kind, objectType, params, returnType, returnColumns) ==
    [name |-> name, type |-> kind, object_type |-> objectType,
     parameters |-> params, return_type |-> returnType,
     return_columns |-> returnColumns]

\* the value of fn before any call
NoFunction == FunctionMetadata("", "scalar", "function", <<>>, Null, AbsentArray)

-----------------------------------------------------------------------------
(* Tables, views, enums *)

\* An optional foreign-key pointer (references?: {schema, table, column}).
NoReference == [isNull |-> TRUE, schema |-> "", table |-> "", column |-> ""]
Reference(sch, tab, col) ==
    [isNull |-> FALSE, schema |-> sch, table |-> tab, column |-> col]

\* comments.join(". ")
RECURSIVE joinWith(_, _)
joinWith(parts, sep) ==
    IF parts = <<>> THEN ""
    ELSE IF Len(parts) = 1 THEN parts[1]
    ELSE parts[1] \o sep \o joinWith(Tail(parts), sep)

\* An annotation that names the enum part first.
generateColumnComment_EnumFirst(column) ==
    joinWith(
        (IF column.is_enum THEN <<"Enum type">> ELSE <<>>)
        \o (IF column.is_pk THEN <<"Primary key">> ELSE <<>>)
        \o (IF ~column.references.isNull
            THEN <<"References " \o column.references.schema \o "."
                   \o column.references.table \o "." \o column.references.column>>
            ELSE <<>>),
        ". ")

generateColumnComment(column) ==
    joinWith(
        (IF column.is_pk THEN <<"Primary key">> ELSE <<>>)
        \o (IF ~column.references.isNull
            THEN <<"References " \o column.references.schema \o "."
                   \o column.references.table \o "." \o column.references.column>>
            ELSE <<>>)
        \o (IF column.is_enum THEN <<"Enum type">> ELSE <<>>),
        ". ")

\* A field line that never carries the optional marker.
ColumnFieldLine_AlwaysRequired(column) ==
    "  " \o column.name \o ": " \o mapSqlTypeToTs(column.type, Undefined) \o ";\n"

\* column.references.schema / table / column are read behind
\* `if (column.references)`; the call throws when a read is reached on null.
ColumnCommentThrows(column) == ~column.references.isNull /\ column.references.isNull

\* `  ${column.name}${nullable}: ${tsType};\n`
ColumnFieldLine(column) ==
    "  " \o column.name \o (IF column.nullable THEN "?" ELSE "") \o ": "
         \o mapSqlTypeToTs(column.type, Undefined) \o ";\n"

\* a table's field, under its annotation when there is one
TableFieldLines(column) ==
    LET comment == generateColumnComment(column)
    IN  (IF comment # "" THEN "  /** " \o comment \o " */\n" ELSE "")
        \o ColumnFieldLine(column)

generateTableInterface(table) ==
    "export interface " \o toPascalCase(table.name) \o " {\n"
    \o joinStrings([i \in 1..Len(table.columns) |->
                       TableFieldLines(table.columns[i])])
    \o "}\n"

\* A view generator that annotates its fields the way the table generator does.
generateViewInterface_Annotated(view) ==
    "export interface " \o toPascalCase(view.name) \o "View" \o " {\n"
    \o joinStrings([i \in 1..Len(view.columns) |-> TableFieldLines(view.columns[i])])
    \o "}\n"

\* generateTableInterface calls generateColumnComment for every column
TableInterfaceThrows(table) ==
    \E i \in 1..Len(table.columns) : ColumnCommentThrows(table.columns[i])

generateViewInterface(view) ==
    "export interface " \o toPascalCase(view.name) \o "View" \o " {\n"
    \o joinStrings([i \in 1..Len(view.columns) |-> ColumnFieldLine(view.columns[i])])
    \o "}\n"

\* A filter field that is optional only for a nullable column.
QueryFieldLine_FollowsNullable(column) ==
    "  " \o column.name \o (IF column.nullable THEN "?" ELSE "") \o ": "
         \o mapSqlTypeToTs(column.type, Undefined) \o " | null;\n"

\* `  ${column.name}?: ${tsType} | null;\n`
QueryFieldLine(column) ==
    "  " \o column.name \o "?: " \o mapSqlTypeToTs(column.type, Undefined)
         \o " | null;\n"

generateQueryInterface(table) ==
    "export interface " \o toPascalCase(table.name) \o "QueryParams {\n"
    \o "  limit?: number;\n"
    \o "  offset?: number;\n"
    \o "  order_by?: string;\n"
    \o "  order_dir?: \"asc\" | \"desc\";\n"
    \o joinStrings([i \in 1..Len(table.columns) |-> QueryFieldLine(table.columns[i])])
    \o "}\n"

\* value.replace(/[^a-zA-Z0-9_]/g, "_")
RECURSIVE replaceInvalidChars(_)
replaceInvalidChars(value) ==
    IF value = "" THEN ""
    ELSE (IF IsAlnum(Char(value, 1)) \/ Char(value, 1) = "_"
          THEN Char(value, 1) ELSE "_")
         \o replaceInvalidChars(From(value, 2))

ReservedWords == {"delete", "default", "public", "private", "enum"}

\* A sanitizer without the keyword step.
sanitizeEnumValue_NoKeywordPrefix(value) ==
    LET replaced == replaceInvalidChars(value)
    IN  IF IsDigit(Char(replaced, 1)) THEN "_" \o replaced ELSE replaced

sanitizeEnumValue(value) ==
    LET replaced == replaceInvalidChars(value)
        safeValue == IF IsDigit(Char(replaced, 1)) THEN "_" \o replaced ELSE replaced
    IN  IF toLowerCase(safeValue) \in ReservedWords
        THEN "_" \o safeValue ELSE safeValue

\* `  ${safeValue} = "${value}",\n`
EnumMemberLine(value) == "  " \o sanitizeEnumValue(value) \o " = \"" \o value \o "\",\n"

generateEnum(enumInfo) ==
    "export enum " \o toPascalCase(enumInfo.name) \o " {\n"
    \o joinStrings([i \in 1..Len(enumInfo.values) |->
                       EnumMemberLine(enumInfo.values[i])])
    \o "}\n"

-----------------------------------------------------------------------------
(* TypeGenerator.generateSchemaTypes *)

\* a number below 10^width in decimal, padded with zeros to width digits
RECURSIVE padDigits(_, _)
padDigits(n, width) ==
    IF width = 0 THEN ""
    ELSE padDigits(n \div 10, width - 1) \o Char(Digits, (n % 10) + 1)

\* new Date(ms).toISOString(), the clock counted in milliseconds from
\* 1970-01-01T00:00:00.000Z; the runs of the model stay within the first hour
toISOString(ms) ==
    "1970-01-01T00:" \o padDigits(ms \div 60000, 2) \o ":"
    \o padDigits((ms \div 1000) % 60, 2) \o "." \o padDigits(ms % 1000, 3) \o "Z"

\* the header comment of a schema module, with the time of the call
SchemaHeader(name, ms) ==
    "/**\n * Generated TypeScript types for the \"" \o name \o "\" schema\n"
    \o " * Generated on: " \o toISOString(ms) \o "\n */\n\n"

\* The mappings of a SchemaMetadata are modelled by the sequence of their values
\* in the order Object.entries yields them.
TablesSection(tables) ==
    IF Len(tables) > 0
    THEN "// Table interfaces\n"
         \o joinStrings([i \in 1..Len(tables) |->
                generateTableInterface(tables[i]) \o "\n"
                \o generateQueryInterface(tables[i]) \o "\n"])
    ELSE ""

ViewsSection(views) ==
    IF Len(views) > 0
    THEN "// View interfaces\n"
         \o joinStrings([i \in 1..Len(views) |->
                generateViewInterface(views[i]) \o "\n"])
    ELSE ""

EnumsSection(enums) ==
    IF Len(enums) > 0
    THEN "// Enum types\n"
         \o joinStrings([i \in 1..Len(enums) |-> generateEnum(enums[i]) \o "\n"])
    ELSE ""

FunctionsSection(functions) ==
    IF Len(functions) > 0
    THEN "// Function types\n"
         \o joinStrings([i \in 1..Len(functions) |->
                generateFunctionTypes(functions[i], "") \o "\n"])
    ELSE ""

\* schema.procedures may be missing altogether
ProceduresSection(procedures) ==
    IF ~procedures.isNull /\ Len(procedures.items) > 0
    THEN "// Procedure types\n"
         \o joinStrings([i \in 1..Len(procedures.items) |->
                generateFunctionTypes(procedures.items[i], "Procedure") \o "\n"])
    ELSE ""

\* A module in which the enums come before the views.
generateSchemaTypes_EnumsBeforeViews(sch, ms) ==
    SchemaHeader(sch.name, ms)
    \o TablesSection(sch.tables)
    \o EnumsSection(sch.enums)
    \o ViewsSection(sch.views)
    \o FunctionsSection(sch.functions)
    \o ProceduresSection(sch.procedures)

\* generateSchemaTypes(sch) called when the clock reads ms
generateSchemaTypes(sch, ms) ==
    SchemaHeader(sch.name, ms)
    \o TablesSection(sch.tables)
    \o ViewsSection(sch.views)
    \o EnumsSection(sch.enums)
    \o FunctionsSection(sch.functions)
    \o ProceduresSection(sch.procedures)

-----------------------------------------------------------------------------
(* Inputs of generateSchemaTypes *)

ColumnMetadata(name, type, nullable, isPk, isEnum, references) ==
    [name |-> name, type |-> type, nullable |-> nullable, is_pk |-> isPk,
     is_enum |-> isEnum, references |-> references]

UsersTable ==
    [name |-> "users", schema |-> "public", columns |-> <<
        ColumnMetadata("id", "uuid", FALSE, TRUE, FALSE, NoReference),
        ColumnMetadata("bio", "text", TRUE, FALSE, FALSE, NoReference),
        ColumnMetadata("role", "user_role", FALSE, FALSE, TRUE, NoReference),
        ColumnMetadata("org_id", "integer", TRUE, FALSE, FALSE,
                       Reference("public", "orgs", "id")) >>]

ApiKeysTable ==
    [name |-> "api-keys", schema |-> "public", columns |-> <<
        ColumnMetadata("key", "varchar(64)", FALSE, TRUE, FALSE, NoReference),
        ColumnMetadata("scopes", "text[]", TRUE, FALSE, FALSE, NoReference) >>]

ActiveUsersView ==
    [name |-> "active_users", schema |-> "public", columns |-> <<
        ColumnMetadata("id", "uuid", FALSE, TRUE, FALSE, NoReference),
        ColumnMetadata("last_seen", "timestamp with time zone", TRUE, FALSE,
                       FALSE, NoReference) >>]

UserRoleEnum ==
    [name |-> "user_role", schema |-> "public",
     values |-> <<"admin", "co-op's dues", "2fa">>]

GetUsersFunction ==
    FunctionMetadata("get_users", "table", "function",
        <<Param("p_limit", "integer", "IN", TRUE)>>, "SETOF record",
        PresentArray(<<Column("id", "uuid"), Column("username", "varchar")>>))

UpdateStatusProcedure ==
    FunctionMetadata("update_status", "scalar", "procedure",
        <<Param("p_id", "uuid", "IN", FALSE),
          Param("o_count", "integer", "OUT", FALSE)>>, Null, AbsentArray)

SchemaMetadata(name, tables, views, enums, functions, procedures) ==
    [name |-> name, tables |-> tables, views |-> views, enums |-> enums,
     functions |-> functions, procedures |-> procedures]

SchemaInputs ==
    {SchemaMetadata("public", tables, views, enums, functions, procedures) :
        tables \in {<<>>, <<UsersTable>>, <<UsersTable, ApiKeysTable>>},
        views \in {<<>>, <<ActiveUsersView>>},
        enums \in {<<>>, <<UserRoleEnum>>},
        functions \in {<<>>, <<GetUsersFunction>>},
        procedures \in {AbsentArray, PresentArray(<<>>),
                        PresentArray(<<UpdateStatusProcedure>>)}}

\* the value of schema where no generateSchemaTypes call is made
NoSchema == SchemaMetadata("", <<>>, <<>>, <<>>, <<>>, AbsentArray)

-----------------------------------------------------------------------------
(* Inputs of generateTableInterface, generateQueryInterface, generateViewInterface *)

\* Columns over every combination of primary key, foreign key and enum, nullable
\* and not, of mapped types and of a type the mapper does not know.
ColumnPool == {
    ColumnMetadata("id", "uuid", FALSE, TRUE, FALSE, NoReference),
    ColumnMetadata("bio", "text", TRUE, FALSE, FALSE, NoReference),
    ColumnMetadata("role", "user_role", FALSE, FALSE, TRUE, NoReference),
    ColumnMetadata("org_id", "integer", TRUE, FALSE, FALSE,
                   Reference("public", "orgs", "id")),
    ColumnMetadata("owner_id", "uuid", FALSE, TRUE, FALSE,
                   Reference("auth", "users", "id")),
    ColumnMetadata("kind", "varchar(16)", TRUE, TRUE, TRUE, NoReference),
    ColumnMetadata("status_id", "integer", FALSE, FALSE, TRUE,
                   Reference("public", "statuses", "id")),
    ColumnMetadata("tags", "text[]", TRUE, TRUE, TRUE,
                   Reference("public", "tags", "name")) }

ColumnLists == UNION {[1..n -> ColumnPool] : n \in 0..MaxColumns}

TableNames == {"users", "api-keys"}

TableMetadata(name, sch, columns) ==
    [name |-> name, schema |-> sch, columns |-> columns]

TableInputs ==
    {TableMetadata(name, "public", columns) :
        name \in TableNames, columns \in ColumnLists}

\* the value of tableArg where no table or view generator is called
NoTable == TableMetadata("", "", <<>>)

-----------------------------------------------------------------------------
(* Inputs of generateEnum and toPascalCase *)

EnumMetadata(name, sch, values) == [name |-> name, schema |-> sch, values |-> values]

\* the value of enumArg where generateEnum is not called
NoEnum == EnumMetadata("", "", <<>>)

\* Values with characters outside [A-Za-z0-9_], with a leading digit, equal to a
\* keyword of the sanitizer (in either letter case), and the empty value.
EnumValuePool == {"active", "co-op's dues", "2fa", "public", "Default", ""}

\* values are drawn with repetition: duplicates are possible
EnumValueLists == UNION {[1..n -> EnumValuePool] : n \in 0..MaxValues}

EnumNames == {"user_status", "order-kind"}

EnumInputs ==
    {EnumMetadata(name, "public", values) :
        name \in EnumNames, values \in EnumValueLists}

\* Arguments of toPascalCase: words in lower, upper and mixed case and with
\* digits, joined and surrounded by runs of delimiters, and the names of the tests.
PascalWords == {"user", "API", "Keys2", "x"}
PascalDelimiters == {"_", "-", "__", ". "}

RECURSIVE JoinedWords(_)
JoinedWords(n) ==
    IF n = 1 THEN PascalWords
    ELSE {w \o d \o rest :
            w \in PascalWords, d \in PascalDelimiters, rest \in JoinedWords(n - 1)}

PascalInputs ==
    {"", "_", "-_ ", "user_profiles", "api-keys", "simple", "CamelCaseAlready",
     "snake_case_name"}
    \cup {lead \o words \o trail :
            words \in UNION {JoinedWords(n) : n \in 1..MaxWords},
            lead \in {"", "_"}, trail \in {"", "-"}}

-----------------------------------------------------------------------------
(* The file system generateTypes writes to *)

NoError == "<<no error>>"
\* what a name of the output directory holds: nothing, a directory, or a file's text
NoFile == "<<no file>>"
DirEntry == "<<directory>>"

\* `${outputDir}/types-${schema.name}.ts` and `${outputDir}/index.ts`, as names
\* inside outputDir
typesFileName(sch) == "types-" \o sch.name \o ".ts"
indexFileName == "index.ts"

\* outputDir on disk: kind is "absent", "directory", "file" (the path names a
\* regular file) or "forbidden" (absent, under a parent that refuses the
\* creation); entries maps the names inside it to what they hold; kindAtCall
\* keeps the kind the generateTypes call found.
FileSystem(kind, entries) == [kind |-> kind, entries |-> entries, kindAtCall |-> kind]

\* a file system that generateTypes is never run on
NoFileSystem == FileSystem("absent", <<>>)

\* Deno.mkdir(outputDir, { recursive: true }): creates what is missing, succeeds
\* on an existing directory, fails on a file and where creation is refused
mkdirRecursive(f) ==
    CASE f.kind = "absent" -> [fs |-> [f EXCEPT !.kind = "directory"], error |-> NoError]
      [] f.kind = "directory" -> [fs |-> f, error |-> NoError]
      [] f.kind = "file" -> [fs |-> f, error |-> "AlreadyExists"]
      [] f.kind = "forbidden" -> [fs |-> f, error |-> "PermissionDenied"]

\* A directory step that fails with AlreadyExists when outputDir exists, and
\* lets every error through.
ensureOutputDir_FailIfExists(f) ==
    IF f.kind = "directory" THEN [fs |-> f, error |-> "AlreadyExists"]
    ELSE mkdirRecursive(f)

\* try { await Deno.mkdir(...) } catch (err) { if (!(err instanceof
\* Deno.errors.AlreadyExists)) throw err; }
ensureOutputDir(f) ==
    LET made == mkdirRecursive(f)
    IN  [fs |-> made.fs,
         error |-> IF made.error = "AlreadyExists" THEN NoError ELSE made.error]

\* Deno.writeTextFile(`${outputDir}/${name}`, content)
writeTextFile(f, name, content) ==
    CASE f.kind = "file" -> [fs |-> f, error |-> "NotADirectory"]
      [] f.kind \in {"absent", "forbidden"} -> [fs |-> f, error |-> "NotFound"]
      [] f.entries[name] = DirEntry -> [fs |-> f, error |-> "IsADirectory"]
      [] OTHER -> [fs |-> [f EXCEPT !.entries[name] = content], error |-> NoError]

\* An index that re-exports "./<name>", without the prefix of the file names.
IndexFileContent_NoPrefix(schs, ms) ==
    "/**\n * Index file for generated TypeScript types\n * Generated on: "
    \o toISOString(ms) \o "\n */\n\n"
    \o joinStrings([i \in 1..Len(schs) |->
                       "export * from './" \o schs[i].name \o "';\n"])

\* the text generateIndexFile writes when the clock reads ms
IndexFileContent(schs, ms) ==
    "/**\n * Index file for generated TypeScript types\n * Generated on: "
    \o toISOString(ms) \o "\n */\n\n"
    \o joinStrings([i \in 1..Len(schs) |->
                       "export * from './types-" \o schs[i].name \o "';\n"])

\* Inputs of generateTypes: two schemas of different names, in lists with
\* repetition.
PublicSchema ==
    SchemaMetadata("public", <<ApiKeysTable>>, <<>>, <<UserRoleEnum>>, <<>>,
                   AbsentArray)
AuthSchema ==
    SchemaMetadata("auth", <<>>, <<ActiveUsersView>>, <<>>, <<>>, PresentArray(<<>>))
TypesSchemaPool == {PublicSchema, AuthSchema}
SchemaLists == UNION {[1..n -> TypesSchemaPool] : n \in 0..MaxSchemas}

TypesFileNames == {typesFileName(sch) : sch \in TypesSchemaPool} \cup {indexFileName}
EmptyDirectory == [name \in TypesFileNames |-> NoFile]

\* outputDir missing, creatable or not; a file in its place; a directory, empty
\* or holding files of an earlier run or directories under the names to write
FileSystems ==
    {FileSystem(kind, EmptyDirectory) : kind \in {"absent", "forbidden", "file"}}
    \cup {FileSystem("directory", entries) : entries \in {
            EmptyDirectory,
            [EmptyDirectory EXCEPT ![indexFileName] = "export * from './types-old';\n"],
            [EmptyDirectory EXCEPT ![typesFileName(PublicSchema)] = "// stale\n"],
            [EmptyDirectory EXCEPT ![typesFileName(AuthSchema)] = DirEntry],
            [EmptyDirectory EXCEPT ![indexFileName] = DirEntry] }}

-----------------------------------------------------------------------------
(* BaseClient.request (src/client/base.ts) *)

\* String(n) of a non-negative integer
RECURSIVE numberToString(_)
numberToString(n) ==
    IF n < 10 THEN Char(Digits, n + 1)
    ELSE numberToString(n \div 10) \o Char(Digits, (n % 10) + 1)

\* A parsed JSON value, as far as the client looks into it: null, an array of
\* records, or an object (an error body with its detail).
Json(type, items, detail) == [type |-> type, items |-> items, detail |-> detail]
JsonNull == Json("null", <<>>, "")
JsonArray(items) == Json("array", items, "")
JsonObject(detail) == Json("object", <<>>, detail)

\* a record of a table, and the value of an index that holds none
Row(id, username) == [id |-> id, username |-> username]
UndefinedRow == Row(Undefined, Undefined)

\* The body of a response: text that parses to a JSON value, or text that does
\* not (an empty body, a page of HTML).
Body(parses, value) == [parses |-> parses, value |-> value]
UnparsableBody == Body(FALSE, JsonNull)

Response(status, statusText, body) ==
    [status |-> status, statusText |-> statusText, body |-> body]
NoResponse == Response(0, "", UnparsableBody)

\* response.ok
responseOk(r) == r.status >= 200 /\ r.status <= 299

\* An Error: PrismError has code, status and details, the others have none
\* (code Undefined, status 0).
ErrorValue(name, message, code, status, details) ==
    [name |-> name, message |-> message, code |-> code, status |-> status,
     details |-> details]
NoErrorValue == ErrorValue("", "", Undefined, 0, JsonNull)
PrismError(message, code, status, details) ==
    ErrorValue("PrismError", message, code, status, details)
SyntaxError ==
    ErrorValue("SyntaxError", "Unexpected end of JSON input", Undefined, 0, JsonNull)
AbortError ==
    ErrorValue("AbortError", "The signal has been aborted", Undefined, 0, JsonNull)
FetchFailed ==
    ErrorValue("TypeError", "error sending request", Undefined, 0, JsonNull)

\* how a promise stands
Pending == [state |-> "pending", value |-> JsonNull, error |-> NoErrorValue]
Fulfilled(value) == [state |-> "fulfilled", value |-> value, error |-> NoErrorValue]
Rejected(error) == [state |-> "rejected", value |-> JsonNull, error |-> error]

\* response.json(): the parsed body, or the parser's error
responseJson(r) ==
    IF r.body.parses THEN Fulfilled(r.body.value) ELSE Rejected(SyntaxError)

\* The part of request after `await fetch(...)`: a response that is not ok
\* throws a PrismError carrying `await response.json().catch(() => null)`, an ok
\* response returns `await response.json()`.  json is how response.json()
\* settled (it rejects when the body does not parse or the signal aborts).
requestOutcome(r, json) ==
    IF ~responseOk(r)
    THEN Rejected(PrismError(
             "HTTP error " \o numberToString(r.status) \o ": " \o r.statusText,
             "HTTP_ERROR", r.status,
             IF json.state = "fulfilled" THEN json.value ELSE JsonNull))
    ELSE json

\* `timeout = 10000` in the parameter list of request
DefaultTimeout == 10000

\* options.timeout, given or left out
GivenTimeout(ms) == [given |-> TRUE, ms |-> ms]
OmittedTimeout == [given |-> FALSE, ms |-> 0]
RequestArgs(method, timeout) == [method |-> method, timeout |-> timeout]
NoRequest == RequestArgs("", OmittedTimeout)

\* the delay the timer is armed with
timeoutOf(args) ==
    IF args.timeout.given THEN args.timeout.ms ELSE DefaultTimeout

\* clearTimeout(timeoutId): a timer that fired already is left as it is
clearTimeout(t) == IF t = "armed" THEN "cleared" ELSE t

\* A request that clears its timer on the way out of a successful call only.
timerAfter_OnlyOnSuccess(result, t) ==
    IF result.state = "fulfilled" THEN clearTimeout(t) ELSE t

\* finally { clearTimeout(timeoutId); }: runs however the try block ended
timerAfter(result, t) ==
    clearTimeout(t)

\* the clock of a request advances by half the default timeout
AdvanceMs == DefaultTimeout \div 2

Methods == {"GET", "POST", "PUT", "DELETE"}
RequestInputs ==
    {RequestArgs(m, t) : m \in Methods, t \in {OmittedTimeout, GivenTimeout(AdvanceMs)}}

AdaRow == Row("1", "ada")
BobRow == Row("2", "bob")
EveRow == Row("1", "eve")
RowPool == {AdaRow, BobRow, EveRow}
RowLists == UNION {[1..n -> RowPool] : n \in 0..MaxRows}

\* what the server may answer: success with or without content, errors with a
\* JSON body or none
StatusTexts == {<<200, "OK">>, <<204, "No Content">>, <<404, "Not Found">>,
                <<500, "Internal Server Error">>}
Bodies ==
    {UnparsableBody, Body(TRUE, JsonObject("Not Found"))}
    \cup {Body(TRUE, JsonArray(rows)) : rows \in RowLists}
Responses == {Response(st[1], st[2], b) : st \in StatusTexts, b \in Bodies}

NoRequestCall ==
    /\ reqArgs = NoRequest
    /\ reqPc = "idle"
    /\ timer = "none"
    /\ elapsed = 0
    /\ response = NoResponse
    /\ outcome = Pending

-----------------------------------------------------------------------------
(* createCrudOperations(...).findOne (src/client/crud.ts) *)

\* an id: a string or a number
StringId(text) == [type |-> "string", text |-> text, number |-> 0]
NumberId(number) == [type |-> "number", text |-> "", number |-> number]
NoId == StringId("")

\* String(id), and `${id}` in the message
idToString(id) == IF id.type = "number" THEN numberToString(id.number) ELSE id.text

\* transformFilterToParams({where: {id: String(id)}}): one parameter per entry
\* of where, its value through String(value); no ordering, no paging
findOneParams(id) == <<<<"id", idToString(id)>>>>

\* The part of findOne after `await this.findAll(...)`, given how findAll
\* settled: its rejection goes through; an empty array throws; otherwise
\* results[0].  A value that is no array has no length 0 (null has no length at
\* all, reading it throws) and no element 0.
findOneResult(results, id) ==
    CASE results.state = "rejected" ->
            [state |-> "rejected", value |-> UndefinedRow, error |-> results.error]
      [] results.value.type = "null" ->
            [state |-> "rejected", value |-> UndefinedRow,
             error |-> ErrorValue("TypeError", "Cannot read properties of null",
                                  Undefined, 0, JsonNull)]
      [] results.value.type = "array" /\ Len(results.value.items) = 0 ->
            [state |-> "rejected", value |-> UndefinedRow,
             error |-> ErrorValue("Error", "No record found with ID: " \o idToString(id),
                                  Undefined, 0, JsonNull)]
      [] results.value.type = "array" ->
            [state |-> "fulfilled", value |-> results.value.items[1],
             error |-> NoErrorValue]
      [] OTHER ->
            [state |-> "fulfilled", value |-> UndefinedRow, error |-> NoErrorValue]

\* the promise of a findOne call not settled yet
NoFindOneResult == [state |-> "pending", value |-> UndefinedRow, error |-> NoErrorValue]

IdInputs == {StringId("nonexistent-id"), StringId("1"), NumberId(1), NumberId(42)}

\* what the server may answer to the GET of findAll: the records, none, or an
\* error with a body
CrudResponses ==
    {Response(200, "OK", Body(TRUE, JsonArray(rows))) : rows \in RowLists}
    \cup {Response(404, "Not Found", b) :
            b \in {Body(TRUE, JsonArray(<<>>)), Body(TRUE, JsonObject("Not Found"))}}
    \cup {Response(500, "Internal Server Error", UnparsableBody)}

NoCrudCall ==
    /\ idArg = NoId
    /\ crudPc = "idle"
    /\ sentParams = <<>>
    /\ found = NoFindOneResult

-----------------------------------------------------------------------------
(* PrismTs (src/prism.ts) *)

\* What a public method resolved to: nothing (void), the schema list, one
\* schema, one table, undefined, a property found on Object.prototype, or the
\* CRUD operations of a base path.  The value is kept in a tuple.
Result(kind, value) == [kind |-> kind, value |-> value]
UndefinedResult == Result("undefined", <<>>)
VoidResult == Result("void", <<>>)

\* schemas.find((schema) => schema.name === schemaName)
findSchema(list, schemaName) ==
    LET hits == {i \in 1..Len(list) : list[i].name = schemaName}
    IN  IF hits = {} THEN UndefinedResult
        ELSE Result("schema", <<list[Min(hits)]>>)

\* the properties every object parsed from JSON inherits from Object.prototype
ObjectPrototypeKeys ==
    {"constructor", "toString", "toLocaleString", "valueOf", "hasOwnProperty",
     "isPrototypeOf", "propertyIsEnumerable", "__proto__"}

\* tables[tableName], tables being the Record<string, TableMetadata> of a
\* schema (kept here as the sequence of its values, each under the key of its
\* name): the own property of that key, else the inherited one, else undefined
propertyOf(tables, key) ==
    LET own == {i \in 1..Len(tables) : tables[i].name = key}
    IN  CASE own # {} -> Result("table", <<tables[Max(own)]>>)
          [] key \in ObjectPrototypeKeys -> Result("inherited", <<key>>)
          [] OTHER -> UndefinedResult

\* schema?.tables[tableName]
tableOf(hit, tableName) ==
    IF hit.kind = "undefined" THEN UndefinedResult
    ELSE propertyOf(hit.value[1].tables, tableName)

\* createCrudOperations(client, schema, table): the operations of a base path,
\* made without looking at the metadata
createCrudOperations(schemaName, tableName) ==
    Result("operations", <<"/" \o schemaName \o "/" \o tableName>>)

\* What a public method returns once `await this.ensureInitialized()` (or
\* initialize() itself) is through, this.schemas being list.
methodResult(op, list, schemaName, tableName) ==
    CASE op = "initialize" -> VoidResult
      [] op = "getSchemas" -> Result("schemas", list)
      [] op = "getSchema" -> findSchema(list, schemaName)
      [] op = "getTable" -> tableOf(findSchema(list, schemaName), tableName)
      [] op = "getTableOperations" -> createCrudOperations(schemaName, tableName)

Ops == {"initialize", "getSchemas", "getSchema", "getTable", "getTableOperations"}

\* one _initialize() call: how its promise stands, what the schema fetch
\* delivered or failed with, and how many clearCache() calls had resolved when
\* it was made
InitCall(state, delivered, error, clearsBefore) ==
    [state |-> state, delivered |-> delivered, error |-> error,
     clearsBefore |-> clearsBefore]

\* one clearCache() call
ClearCall(state, error) == [state |-> state, error |-> error]

\* One call of a public method: the promise it awaits (0: none), how its own
\* promise stands, what it resolved to or was rejected with; and, of the moment
\* it was made, how many _initialize() calls and how many resolved clearCache()
\* calls there had been, and of the moment it returned, whose list this.schemas
\* was.
MethodCall(op, awaits, state, result, error, initsBefore, clearsBefore, source) ==
    [op |-> op, awaits |-> awaits, state |-> state, result |-> result,
     error |-> error, initsBefore |-> initsBefore, clearsBefore |-> clearsBefore,
     source |-> source]

\* An initialize() that calls _initialize() whenever initialized is not set,
\* stored promise or not.
startsFetch_NoSharing(isInitialized, promise) ==
    ~isInitialized

\* initialize() makes the _initialize() call when initialized is not set and no
\* promise is stored
startsFetch(isInitialized, promise) ==
    ~isInitialized /\ promise = 0

ResolvedClears(cs) == Cardinality({j \in 1..Len(cs) : cs[j].state = "fulfilled"})

\* A second schema under the name of the first.
ShadowedPublic ==
    SchemaMetadata("public", <<UsersTable>>, <<>>, <<>>, <<>>, AbsentArray)

\* what GET /dt/schemas may deliver, and what it may fail with
ServiceLists == {<<PublicSchema, AuthSchema, ShadowedPublic>>, <<AuthSchema>>}
ServiceErrors ==
    {FetchFailed,
     PrismError("HTTP error 500: Internal Server Error", "HTTP_ERROR", 500, JsonNull)}

\* the names the lookups are made with: known and unknown schemas and tables
LookupNames ==
    {<<"public", "api-keys">>, <<"public", "users">>, <<"public", "orders">>,
     <<"public", "constructor">>, <<"billing", "api-keys">>}

NoPrismCall ==
    /\ initialized = FALSE
    /\ initPromise = 0
    /\ cachedSchemas = <<>>
    /\ loadedBy = 0
    /\ inits = <<>>
    /\ clears = <<>>
    /\ calls = <<>>
    /\ schemaNameArg = ""
    /\ tableNameArg = ""

NoClientCall == NoRequestCall /\ NoCrudCall /\ NoPrismCall

-----------------------------------------------------------------------------
(* The state machine *)

\* A type name, optionally in upper case, with up to two parenthesized suffixes,
\* array markers and surrounding whitespace.
SqlTypeInputs ==
    {pad[1] \o (IF upper THEN toUpperCase(base) ELSE base) \o s1 \o s2
            \o ArrayMarkers(depth) \o pad[2] :
        base \in TypeNames, s1 \in Suffixes, s2 \in {"", "(255)"},
        depth \in 0..MaxArrayDepth, pad \in Padding, upper \in BOOLEAN}
    \cup
    {pad[1] \o (IF upper THEN toUpperCase(base) ELSE base)
            \o ArrayMarkers(depth) \o pad[2] :
        base \in TypeNames, depth \in 0..MaxArrayDepth, pad \in Padding,
        upper \in BOOLEAN}

FunctionInputs ==
    {FunctionMetadata(name, kind, objectType, params, returnType, returnColumns) :
        name \in FunctionNames, kind \in FunctionKinds, objectType \in ObjectTypes,
        params \in ParamLists, returnType \in ReturnTypes,
        returnColumns \in ReturnColumnLists}

\* No call has been made: the generator has no fields of its own, the variables
\* hold the arguments the calls will be made with.
NothingCalled ==
    /\ tsType = NoCall
    /\ fnCode = NoCall
    /\ now = 0
    /\ history = <<>>
    /\ tableCode = NoCall
    /\ queryCode = NoCall
    /\ viewCode = NoCall
    /\ enumCode = NoCall
    /\ pascal = NoCall
    /\ pc = "idle"
    /\ cursor = 0
    /\ thrown = NoError
    /\ written = <<>>

\* the arguments of the calls a specification does not make
NoMapperInput == sqlType = "" /\ sampleData = Undefined
NoFunctionInput == fn = NoFunction /\ fnSuffix = ""
NoSchemaInput == schema = NoSchema
NoTableInput == tableArg = NoTable
NoNameInput == enumArg = NoEnum /\ strArg = ""
NoTypesInput == schemas = <<>> /\ fs = NoFileSystem
NoGeneratorCall ==
    /\ NoMapperInput /\ NoFunctionInput /\ NoSchemaInput /\ NoTableInput
    /\ NoNameInput /\ NoTypesInput
    /\ NothingCalled

InitMapper ==
    /\ sqlType \in SqlTypeInputs
    /\ sampleData \in SampleValues
    /\ fn = NoFunction
    /\ fnSuffix = ""
    /\ schema = NoSchema
    /\ NoTableInput /\ NoNameInput /\ NoTypesInput
    /\ NothingCalled
    /\ NoClientCall

InitFunctions ==
    /\ sqlType = ""
    /\ sampleData = Undefined
    /\ fn \in FunctionInputs
    /\ fnSuffix \in NameSuffixes
    /\ schema = NoSchema
    /\ NoTableInput /\ NoNameInput /\ NoTypesInput
    /\ NothingCalled
    /\ NoClientCall

InitSchema ==
    /\ sqlType = ""
    /\ sampleData = Undefined
    /\ fn = NoFunction
    /\ fnSuffix = ""
    /\ schema \in SchemaInputs
    /\ NoTableInput /\ NoNameInput /\ NoTypesInput
    /\ NothingCalled
    /\ NoClientCall

\* Functions whose optional metadata is missing, for the runs that call the
\* table generators and generateFunctionTypes side by side.
SparseFunctions == {
    FunctionMetadata("get_users", "scalar", "function",
        <<Param("p_id", "uuid", "IN", FALSE)>>, Null, AbsentArray),
    FunctionMetadata("get_users", "table", "function",
        <<Param("p_limit", "integer", "IN", TRUE)>>, Undefined,
        PresentArray(<<Column("id", "uuid")>>)),
    FunctionMetadata("get_users", "table", "function", <<>>, "SETOF record",
        AbsentArray),
    FunctionMetadata("update_status", "scalar", "procedure",
        <<Param("o_count", "integer", "OUT", FALSE)>>, Null, AbsentArray),
    FunctionMetadata("update_status", "scalar", "procedure", <<>>, Undefined,
        AbsentArray),
    FunctionMetadata("update_status", "set", "function",
        <<ParamWithDefault("p_limit", "integer", "IN", "10")>>, "integer",
        PresentArray(<<>>)) }

InitTables ==
    /\ tableArg \in TableInputs
    /\ fn \in SparseFunctions
    /\ fnSuffix = ""
    /\ NoMapperInput /\ NoSchemaInput /\ NoNameInput /\ NoTypesInput
    /\ NothingCalled
    /\ NoClientCall

\* typeGenerator.mapSqlTypeToTs(sqlType, sampleData)
CallMapSqlTypeToTs ==
    /\ tsType = NoCall
    /\ tsType' = mapSqlTypeToTs(sqlType, sampleData)
    /\ UNCHANGED <<clientVars,
                   sqlType, sampleData, functionVars, schemaVars, tableVars, nameVars,
                 typesVars>>

\* typeGenerator.generateFunctionTypes(fn, fnSuffix)
CallGenerateFunctionTypes ==
    /\ fnCode = NoCall
    /\ fnCode' = IF FunctionTypesThrows(fn) THEN TypeError
                  ELSE generateFunctionTypes(fn, fnSuffix)
    /\ UNCHANGED <<clientVars,
                   fn, fnSuffix, mapperVars, schemaVars, tableVars, nameVars, typesVars>>

\* typeGenerator.generateSchemaTypes(schema): the text, with the time it was
\* made at
CallGenerateSchemaTypes ==
    /\ Len(history) < MaxCalls
    /\ history' = Append(history,
                         [at |-> now, content |-> generateSchemaTypes(schema, now)])
    /\ UNCHANGED <<clientVars,
                   schema, now, mapperVars, functionVars, tableVars, nameVars, typesVars>>

\* a millisecond passes
Tick ==
    /\ now < MaxClock
    /\ now' = now + 1
    /\ UNCHANGED <<clientVars,
                   schema, history, mapperVars, functionVars, tableVars, nameVars,
                 typesVars>>

\* typeGenerator.generateTableInterface(tableArg)
CallGenerateTableInterface ==
    /\ tableCode = NoCall
    /\ tableCode' = IF TableInterfaceThrows(tableArg) THEN TypeError
                     ELSE generateTableInterface(tableArg)
    /\ UNCHANGED <<clientVars,
                   tableArg, queryCode, viewCode, mapperVars, functionVars, schemaVars,
                   nameVars, typesVars>>

\* typeGenerator.generateQueryInterface(tableArg)
CallGenerateQueryInterface ==
    /\ queryCode = NoCall
    /\ queryCode' = generateQueryInterface(tableArg)
    /\ UNCHANGED <<clientVars,
                   tableArg, tableCode, viewCode, mapperVars, functionVars, schemaVars,
                   nameVars, typesVars>>

\* typeGenerator.generateViewInterface(tableArg): ViewMetadata is TableMetadata
CallGenerateViewInterface ==
    /\ viewCode = NoCall
    /\ viewCode' = generateViewInterface(tableArg)
    /\ UNCHANGED <<clientVars,
                   tableArg, tableCode, queryCode, mapperVars, functionVars, schemaVars,
                   nameVars, typesVars>>

InitEnum ==
    /\ enumArg \in EnumInputs
    /\ strArg = ""
    /\ NoMapperInput /\ NoFunctionInput /\ NoSchemaInput /\ NoTableInput
    /\ NoTypesInput
    /\ NothingCalled
    /\ NoClientCall

InitPascal ==
    /\ strArg \in PascalInputs
    /\ enumArg = NoEnum
    /\ NoMapperInput /\ NoFunctionInput /\ NoSchemaInput /\ NoTableInput
    /\ NoTypesInput
    /\ NothingCalled
    /\ NoClientCall

\* typeGenerator.generateEnum(enumArg)
CallGenerateEnum ==
    /\ enumCode = NoCall
    /\ enumCode' = generateEnum(enumArg)
    /\ UNCHANGED <<clientVars,
                   enumArg, strArg, pascal, mapperVars, functionVars, schemaVars,
                   tableVars, typesVars>>

\* typeGenerator.toPascalCase(strArg)
CallToPascalCase ==
    /\ pascal = NoCall
    /\ pascal' = toPascalCase(strArg)
    /\ UNCHANGED <<clientVars,
                   enumArg, enumCode, strArg, mapperVars, functionVars, schemaVars,
                   tableVars, typesVars>>

InitTypes ==
    /\ schemas \in SchemaLists
    /\ fs \in FileSystems
    /\ NoMapperInput /\ NoFunctionInput /\ NoSchemaInput /\ NoTableInput
    /\ NoNameInput
    /\ NothingCalled
    /\ NoClientCall

\* generateTypes(schemas) is called and ensures the output directory; an error
\* other than AlreadyExists reaches the outer catch, which logs and rethrows it
EnsureOutputDir ==
    /\ pc = "idle"
    /\ LET r == ensureOutputDir(fs)
       IN  /\ fs' = r.fs
           /\ IF r.error = NoError
              THEN pc' = "write" /\ thrown' = thrown
              ELSE pc' = "failed" /\ thrown' = r.error
    /\ UNCHANGED <<clientVars,
                   schemas, cursor, written, now, schema, history, mapperVars,
                   functionVars, tableVars, nameVars>>

\* A catch block inside the loop, which logs the error of a write and goes on
\* with the next schema.
afterWriteError_NextSchema(error, cur) ==
    [pc |-> "write", thrown |-> error, cursor |-> cur + 1]

\* A write of the loop throws: the loop is left for the outer catch, which logs
\* the error and throws it again
afterWriteError(error, cur) ==
    [pc |-> "failed", thrown |-> error, cursor |-> cur]

\* one round of the loop: the schema's text, made now, is written to its file
WriteSchemaFile ==
    /\ pc = "write"
    /\ cursor < Len(schemas)
    /\ LET sch == schemas[cursor + 1]
           r == writeTextFile(fs, typesFileName(sch), generateSchemaTypes(sch, now))
           caught == afterWriteError(r.error, cursor)
       IN  /\ fs' = r.fs
           /\ IF r.error = NoError
              THEN /\ written' = Append(written, typesFileName(sch))
                   /\ cursor' = cursor + 1
                   /\ UNCHANGED <<pc, thrown>>
              ELSE /\ pc' = caught.pc
                   /\ thrown' = caught.thrown
                   /\ cursor' = caught.cursor
                   /\ written' = written
    /\ UNCHANGED <<clientVars,
                   schemas, now, schema, history, mapperVars, functionVars,
                   tableVars, nameVars>>

\* after the loop: generateIndexFile(schemas, outputDir), then generateTypes
\* resolves
GenerateIndexFile ==
    /\ pc = "write"
    /\ cursor = Len(schemas)
    /\ LET r == writeTextFile(fs, indexFileName, IndexFileContent(schemas, now))
       IN  /\ fs' = r.fs
           /\ IF r.error = NoError
              THEN /\ written' = Append(written, indexFileName)
                   /\ pc' = "done"
                   /\ thrown' = thrown
              ELSE /\ pc' = "failed"
                   /\ thrown' = r.error
                   /\ written' = written
    /\ UNCHANGED <<clientVars,
                   schemas, cursor, now, schema, history, mapperVars, functionVars,
                   tableVars, nameVars>>

NextMapper == CallMapSqlTypeToTs
NextFunctions == CallGenerateFunctionTypes

SpecMapper == InitMapper /\ [][NextMapper]_vars
NextSchema == CallGenerateSchemaTypes \/ Tick

SpecFunctions == InitFunctions /\ [][NextFunctions]_vars
SpecSchema == InitSchema /\ [][NextSchema]_vars

NextTables ==
    \/ CallGenerateTableInterface
    \/ CallGenerateQueryInterface
    \/ CallGenerateViewInterface
    \/ CallGenerateFunctionTypes
SpecTables == InitTables /\ [][NextTables]_vars

NextTypes == EnsureOutputDir \/ WriteSchemaFile \/ GenerateIndexFile \/ Tick
SpecTypes == InitTypes /\ [][NextTypes]_vars

NextEnum == CallGenerateEnum
SpecEnum == InitEnum /\ [][NextEnum]_vars

NextPascal == CallToPascalCase
SpecPascal == InitPascal /\ [][NextPascal]_vars

-----------------------------------------------------------------------------
(* generateSchemaTypes on schemas whose object names lie close together *)

\* a table or view of one column under a given name
NamedRelation(name) ==
    [name |-> name, schema |-> "public", columns |-> <<
        ColumnMetadata("id", "uuid", FALSE, TRUE, FALSE, NoReference) >>]

\* Mappings whose names are distinct as strings: names that differ in their
\* separator only, and names that end in the words the generator appends.
CloseTables ==
    {<<>>,
     <<NamedRelation("users")>>,
     <<NamedRelation("users"), NamedRelation("users_view")>>,
     <<NamedRelation("user_profiles"), NamedRelation("user-profiles")>>,
     <<NamedRelation("orders"), NamedRelation("orders_query_params")>>}
CloseViews == {<<>>, <<NamedRelation("users")>>, <<ActiveUsersView>>}
CloseSchemas ==
    {SchemaMetadata("public", tables, views, enums, functions, procedures) :
        tables \in CloseTables,
        views \in CloseViews,
        enums \in {<<>>, <<UserRoleEnum>>},
        functions \in {<<>>, <<GetUsersFunction>>},
        procedures \in {AbsentArray}}

InitDeclarations ==
    /\ schema \in CloseSchemas
    /\ NoMapperInput /\ NoFunctionInput /\ NoTableInput /\ NoNameInput /\ NoTypesInput
    /\ NothingCalled
    /\ NoClientCall

SpecDeclarations == InitDeclarations /\ [][NextSchema]_vars

-----------------------------------------------------------------------------
(* BaseClient.request, step by step *)

InitRequest ==
    /\ reqArgs \in RequestInputs
    /\ reqPc = "idle"
    /\ timer = "none"
    /\ elapsed = 0
    /\ response = NoResponse
    /\ outcome = Pending
    /\ NoGeneratorCall /\ NoCrudCall /\ NoPrismCall

\* get, post, put and delete all go into request: the timer is armed, fetch is
\* called with the controller's signal
CallRequest ==
    /\ reqPc = "idle"
    /\ reqPc' = "fetching"
    /\ timer' = "armed"
    /\ UNCHANGED <<reqArgs, elapsed, response, outcome, generatorVars, crudVars,
                   prismVars>>

\* time passes, whether a request is under way or not
Advance ==
    /\ elapsed < MaxAdvances * AdvanceMs
    /\ elapsed' = elapsed + AdvanceMs
    /\ UNCHANGED <<reqArgs, reqPc, timer, response, outcome, generatorVars, crudVars,
                   prismVars>>

\* fetch resolves to a response (whatever its status) and request starts
\* reading the body with response.json()
ResponseArrives ==
    /\ reqPc = "fetching"
    /\ \E r \in Responses : response' = r
    /\ reqPc' = "reading"
    /\ UNCHANGED <<reqArgs, timer, elapsed, outcome, generatorVars, crudVars,
                   prismVars>>

\* fetch rejects (no connection); the error leaves request through finally
FetchRejects ==
    /\ reqPc = "fetching"
    /\ reqPc' = "settled"
    /\ outcome' = Rejected(FetchFailed)
    /\ timer' = timerAfter(outcome', timer)
    /\ UNCHANGED <<reqArgs, elapsed, response, generatorVars, crudVars, prismVars>>

\* response.json() settles; request throws or returns, through finally
BodyRead ==
    /\ reqPc = "reading"
    /\ reqPc' = "settled"
    /\ outcome' = requestOutcome(response, responseJson(response))
    /\ timer' = timerAfter(outcome', timer)
    /\ UNCHANGED <<reqArgs, elapsed, response, generatorVars, crudVars, prismVars>>

\* The timer's callback runs controller.abort(): a timer runs no sooner than its
\* delay.  The pending fetch or body read rejects with the abort error, and
\* request settles through finally; with nothing pending the abort has no one
\* to reach.
TimerFires ==
    /\ timer = "armed"
    /\ elapsed >= timeoutOf(reqArgs)
    /\ CASE reqPc = "fetching" ->
               /\ reqPc' = "settled"
               /\ outcome' = Rejected(AbortError)
               /\ timer' = timerAfter(outcome', "fired")
         [] reqPc = "reading" ->
               /\ reqPc' = "settled"
               /\ outcome' = requestOutcome(response, Rejected(AbortError))
               /\ timer' = timerAfter(outcome', "fired")
         [] OTHER ->
               /\ timer' = "fired"
               /\ UNCHANGED <<reqPc, outcome>>
    /\ UNCHANGED <<reqArgs, elapsed, response, generatorVars, crudVars, prismVars>>

NextRequest ==
    \/ CallRequest
    \/ Advance
    \/ ResponseArrives
    \/ FetchRejects
    \/ BodyRead
    \/ TimerFires
SpecRequest == InitRequest /\ [][NextRequest]_vars

-----------------------------------------------------------------------------
(* findOne, step by step *)

InitCrud ==
    /\ idArg \in IdInputs
    /\ crudPc = "idle"
    /\ sentParams = <<>>
    /\ found = NoFindOneResult
    /\ NoGeneratorCall /\ NoRequestCall /\ NoPrismCall

\* findOne(id) calls findAll({where: {id: String(id)}}), which sends the GET
CallFindOne ==
    /\ crudPc = "idle"
    /\ crudPc' = "lookup"
    /\ sentParams' = findOneParams(idArg)
    /\ UNCHANGED <<idArg, found, generatorVars, requestVars, prismVars>>

\* the GET of findAll is answered and client.get settles
LookupSettles ==
    /\ crudPc = "lookup"
    /\ \E r \in CrudResponses :
          /\ response' = r
          /\ outcome' = requestOutcome(r, responseJson(r))
    /\ crudPc' = "looked"
    /\ UNCHANGED <<idArg, sentParams, found, reqArgs, reqPc, timer, elapsed,
                   generatorVars, prismVars>>

\* findOne goes on after its await
FindOneSettles ==
    /\ crudPc = "looked"
    /\ crudPc' = "done"
    /\ found' = findOneResult(outcome, idArg)
    /\ UNCHANGED <<idArg, sentParams, generatorVars, requestVars, prismVars>>

NextCrud == CallFindOne \/ LookupSettles \/ FindOneSettles
SpecCrud == InitCrud /\ [][NextCrud]_vars

-----------------------------------------------------------------------------
(* PrismTs, call by call.  A promise's continuations run as microtasks, before
   the next response or timer is handled: the steps from a fetch settling to
   the callers that awaited it going on are one action. *)

InitPrism ==
    /\ initialized = FALSE
    /\ initPromise = 0
    /\ cachedSchemas = <<>>
    /\ loadedBy = 0
    /\ inits = <<>>
    /\ clears = <<>>
    /\ calls = <<>>
    /\ \E names \in LookupNames : schemaNameArg = names[1] /\ tableNameArg = names[2]
    /\ NoGeneratorCall /\ NoRequestCall /\ NoCrudCall

\* A public method is called.  initialize() returns at once when initialized
\* is set, makes the _initialize() call (which sends GET /dt/schemas) when no
\* promise is stored, and hands out the stored promise; ensureInitialized()
\* goes into it only when initialized is not set.  A call that has nothing
\* pending to wait for returns before anything else happens.
CallMethod(op) ==
    /\ Len(calls) < MaxOps
    /\ LET starts == startsFetch(initialized, initPromise)
           awaited == IF initialized THEN 0
                      ELSE IF starts THEN Len(inits) + 1 ELSE initPromise
           waits == awaited # 0
                    /\ (starts \/ inits[awaited].state = "pending")
           fails == awaited # 0 /\ ~starts /\ inits[awaited].state = "rejected"
           done == Len(inits)
           cleared == ResolvedClears(clears)
       IN  /\ inits' = IF starts
                       THEN Append(inits, InitCall("pending", <<>>, NoErrorValue, cleared))
                       ELSE inits
           /\ initPromise' = IF starts THEN Len(inits) + 1 ELSE initPromise
           /\ calls' = Append(calls,
                 CASE waits ->
                        MethodCall(op, awaited, "pending", UndefinedResult,
                                   NoErrorValue, done, cleared, 0)
                   [] fails ->
                        MethodCall(op, awaited, "rejected", UndefinedResult,
                                   inits[awaited].error, done, cleared, 0)
                   [] OTHER ->
                        MethodCall(op, awaited, "fulfilled",
                                   methodResult(op, cachedSchemas, schemaNameArg,
                                                tableNameArg),
                                   NoErrorValue, done, cleared, loadedBy))
    /\ UNCHANGED <<initialized, cachedSchemas, loadedBy, clears, schemaNameArg,
                   tableNameArg, generatorVars, requestVars, crudVars>>

CallInitialize == CallMethod("initialize")
CallGetSchemas == CallMethod("getSchemas")
CallGetSchema == CallMethod("getSchema")
CallGetTable == CallMethod("getTable")
CallGetTableOperations == CallMethod("getTableOperations")

\* The schema fetch of an _initialize() call delivers: the call stores the list
\* and sets initialized, its promise resolves, and the callers awaiting it go on
\* with the list now stored.
SchemasDelivered ==
    \E k \in 1..Len(inits), list \in ServiceLists :
        /\ inits[k].state = "pending"
        /\ cachedSchemas' = list
        /\ initialized' = TRUE
        /\ loadedBy' = k
        /\ inits' = [inits EXCEPT ![k].state = "fulfilled", ![k].delivered = list]
        /\ calls' = [c \in 1..Len(calls) |->
              IF calls[c].state = "pending" /\ calls[c].awaits = k
              THEN [calls[c] EXCEPT
                      !.state = "fulfilled",
                      !.result = methodResult(calls[c].op, list, schemaNameArg,
                                              tableNameArg),
                      !.source = k]
              ELSE calls[c]]
        /\ UNCHANGED <<initPromise, clears, schemaNameArg, tableNameArg,
                       generatorVars, requestVars, crudVars>>

\* The schema fetch fails: _initialize() logs and rethrows, its promise (still
\* the stored one, unless a clearCache() dropped it) is rejected, and so are the
\* callers awaiting it.
SchemasFailed ==
    \E k \in 1..Len(inits), e \in ServiceErrors :
        /\ inits[k].state = "pending"
        /\ inits' = [inits EXCEPT ![k].state = "rejected", ![k].error = e]
        /\ calls' = [c \in 1..Len(calls) |->
              IF calls[c].state = "pending" /\ calls[c].awaits = k
              THEN [calls[c] EXCEPT !.state = "rejected", !.error = e]
              ELSE calls[c]]
        /\ UNCHANGED <<initialized, initPromise, cachedSchemas, loadedBy, clears,
                       schemaNameArg, tableNameArg, generatorVars, requestVars,
                       crudVars>>

\* clearCache() is called and sends POST /health/clear-cache
CallClearCache ==
    /\ Len(clears) < MaxClears
    /\ clears' = Append(clears, ClearCall("pending", NoErrorValue))
    /\ UNCHANGED <<initialized, initPromise, cachedSchemas, loadedBy, inits, calls,
                   schemaNameArg, tableNameArg, generatorVars, requestVars, crudVars>>

\* the POST is answered: clearCache() resets initialized and initPromise and
\* resolves
ClearCacheDone ==
    \E j \in 1..Len(clears) :
        /\ clears[j].state = "pending"
        /\ clears' = [clears EXCEPT ![j].state = "fulfilled"]
        /\ initialized' = FALSE
        /\ initPromise' = 0
        /\ UNCHANGED <<cachedSchemas, loadedBy, inits, calls, schemaNameArg,
                       tableNameArg, generatorVars, requestVars, crudVars>>

\* the POST fails: the await in clearCache() throws before the two assignments
ClearCacheFailed ==
    \E j \in 1..Len(clears), e \in ServiceErrors :
        /\ clears[j].state = "pending"
        /\ clears' = [clears EXCEPT ![j].state = "rejected", ![j].error = e]
        /\ UNCHANGED <<initialized, initPromise, cachedSchemas, loadedBy, inits,
                       calls, schemaNameArg, tableNameArg, generatorVars,
                       requestVars, crudVars>>

NextPrism ==
    \/ CallInitialize
    \/ CallGetSchemas
    \/ CallGetSchema
    \/ CallGetTable
    \/ CallGetTableOperations
    \/ SchemasDelivered
    \/ SchemasFailed
    \/ CallClearCache
    \/ ClearCacheDone
    \/ ClearCacheFailed
SpecPrism == InitPrism /\ [][NextPrism]_vars

-----------------------------------------------------------------------------
(* Reading generated text *)

\* text.split("\n")
RECURSIVE splitLines(_)
splitLines(text) ==
    LET breaks == {i \in 1..Len(text) : Char(text, i) = "\n"}
    IN  IF breaks = {} THEN <<text>>
        ELSE <<SubSeq(text, 1, Min(breaks) - 1)>>
             \o splitLines(From(text, Min(breaks) + 1))

LinesOf(text) == splitLines(text)
HasLine(lines, l) == \E i \in 1..Len(lines) : lines[i] = l
CountLines(lines, l) == Cardinality({i \in 1..Len(lines) : lines[i] = l})

\* The lines between a declaration's header line and the "}" that closes it.
DeclBody(lines, header) ==
    LET h == Min({i \in 1..Len(lines) : lines[i] = header})
        c == Min({j \in (h + 1)..Len(lines) : lines[j] = "}"})
    IN  SubSeq(lines, h + 1, c - 1)

\* a type name of the target language: a base type under array markers
RECURSIVE StripArrayMarkers(_)
StripArrayMarkers(t) ==
    IF endsWith(t, "[]") THEN StripArrayMarkers(SubSeq(t, 1, Len(t) - 2)) ELSE t

RECURSIVE ArrayDepthOf(_)
ArrayDepthOf(t) ==
    IF endsWith(t, "[]") THEN 1 + ArrayDepthOf(SubSeq(t, 1, Len(t) - 2)) ELSE 0

TsBaseTypes == {"number", "string", "boolean", "Record<string, unknown>", "unknown"}

-----------------------------------------------------------------------------
(* Claims about mapSqlTypeToTs, under SpecMapper *)

Mapped == tsType # NoCall

\* C6: mapSqlTypeToTs is total: on every string (empty, garbage, unknown names,
\* any number of trailing "[]") it returns a defined type name, a base type under
\* at most one array marker per "[]" of the input; the empty string gives
\* "unknown".
C6_MapperTotal ==
    Mapped =>
        /\ StripArrayMarkers(tsType) \in TsBaseTypes
        /\ 2 * ArrayDepthOf(tsType) <= Len(sqlType)
        /\ (sqlType = "" => tsType = "unknown")

C6_Witness == Mapped /\ sqlType = "" /\ tsType = "unknown"

\* C7 (as claimed): appending a parenthesized suffix (n) or (p,s) to a type
\* name, in any letter case and with surrounding whitespace, does not change
\* what it maps to.
C7_SuffixIgnored ==
    (Mapped /\ sqlType \in TypeNames) =>
        \A suffix \in Suffixes, pad \in Padding :
            /\ mapSqlTypeToTs(pad[1] \o sqlType \o suffix \o pad[2], sampleData)
                  = tsType
            /\ mapSqlTypeToTs(pad[1] \o toUpperCase(sqlType) \o suffix \o pad[2],
                              sampleData) = tsType

\* C8 (as claimed): for every type string t, t followed by "[]" maps to what t
\* maps to, followed by "[]".
C8_ArrayRoundTrip ==
    Mapped => mapSqlTypeToTs(sqlType \o "[]", sampleData) = tsType \o "[]"

\* C9: every named SQL type maps as the reference table says: the numeric names
\* to number, the character, temporal, uuid, binary, network, geometric and enum
\* names to string, boolean and bool to boolean, json and jsonb to
\* Record<string, unknown> whatever sample value is passed.
C9_ReferenceTable ==
    Mapped =>
        /\ (sqlType \in NumericNames => tsType = "number")
        /\ (sqlType \in StringNames => tsType = "string")
        /\ (sqlType \in BooleanNames => tsType = "boolean")
        /\ (sqlType \in JsonNames => tsType = "Record<string, unknown>")

C9_Witness ==
    /\ Mapped
    /\ sqlType = "timestamp with time zone"
    /\ tsType = "string"

\* the table's entry i is the first one whose pattern matches n
IsFirstMatch(i, n) ==
    /\ RegExpTest(SQL_TYPE_MAPPINGS[i].sqlPattern, n)
    /\ \A j \in 1..(i - 1) : ~RegExpTest(SQL_TYPE_MAPPINGS[j].sqlPattern, n)

CatchAllIsLast ==
    \A i \in 1..Len(SQL_TYPE_MAPPINGS) :
        SQL_TYPE_MAPPINGS[i].sqlPattern.kind = "any" <=> i = Len(SQL_TYPE_MAPPINGS)

\* C10 (as claimed): the call returns the tsType of the first entry of the
\* table whose pattern matches the normalized type, for every input.
C10_FirstMatchOnEveryInput ==
    Mapped =>
        \E i \in 1..Len(SQL_TYPE_MAPPINGS) :
            /\ IsFirstMatch(i, normalizedTypeOf(sqlType))
            /\ tsType = SQL_TYPE_MAPPINGS[i].tsType

\* C10 (amended): when the normalized type is no array type (does not end with
\* "[]"), the call returns the tsType of the first matching entry in table order;
\* the catch-all is the last entry, and on every input "unknown" is returned only
\* when no specific pattern matches.
C10_FirstMatchWins ==
    Mapped =>
        LET n == normalizedTypeOf(sqlType)
        IN  /\ CatchAllIsLast
            /\ ~endsWith(n, "[]") =>
                  \E i \in 1..Len(SQL_TYPE_MAPPINGS) :
                      /\ IsFirstMatch(i, n)
                      /\ tsType = SQL_TYPE_MAPPINGS[i].tsType
            /\ tsType = "unknown" =>
                  \A i \in 1..(Len(SQL_TYPE_MAPPINGS) - 1) :
                      ~RegExpTest(SQL_TYPE_MAPPINGS[i].sqlPattern, n)

\* a specific entry and the catch-all both match, and the specific one won
C10_Witness ==
    /\ Mapped
    /\ sqlType = "VARCHAR(255)(255)"
    /\ Cardinality(MatchingEntries(normalizedTypeOf(sqlType))) = 2
    /\ tsType = "string"

-----------------------------------------------------------------------------
(* Claims about generateFunctionTypes, under SpecFunctions *)

Generated == fnCode # NoCall

\* <Name>: the PascalCase name of the function followed by the suffix argument
DeclName == toPascalCase(fn.name) \o fnSuffix

ParamsHeader == "export interface " \o DeclName \o "Params {"
ResultRowHeader == "export interface " \o DeclName \o "ResultRow {"
ResultHeader == "export interface " \o DeclName \o "Result {"
ResultTypePrefix == "export type " \o DeclName \o "Result = "

\* how many declarations named <Name>Result the text holds
ResultDeclarations(lines) ==
    Cardinality({i \in 1..Len(lines) :
        lines[i] = ResultHeader \/ startsWith(lines[i], ResultTypePrefix)})

\* a field line: optional when opt, typed by the mapper
FieldLine(name, opt, type) ==
    "  " \o name \o (IF opt THEN "?" ELSE "") \o ": "
         \o mapSqlTypeToTs(type, Undefined) \o ";"

ColumnsGiven == ~fn.return_columns.isNull /\ Len(fn.return_columns.items) > 0
\* no return type: null, or the empty string, which names no SQL type
ReturnTypeAbsent == fn.return_type = Null \/ fn.return_type = ""
ReturnTypeVoid == ~ReturnTypeAbsent /\ toLowerCase(fn.return_type) = "void"

\* C2 (as claimed): whenever return_columns is present and non-empty, whatever
\* return_type is, the text declares <Name>ResultRow with one required field per
\* return column, in order, and <Name>Result as <Name>ResultRow[] for the kinds
\* set and table, as <Name>ResultRow | null for any other kind.
C2_ResultRowWheneverColumns ==
    (Generated /\ ColumnsGiven) =>
        LET lines == LinesOf(fnCode)
            cols == fn.return_columns.items
        IN  /\ HasLine(lines, ResultRowHeader)
            /\ DeclBody(lines, ResultRowHeader)
                  = [i \in 1..Len(cols) |->
                        FieldLine(cols[i].name, FALSE, cols[i].type)]
            /\ HasLine(lines, ResultTypePrefix \o DeclName
                    \o (IF fn.type \in {"set", "table"} THEN "ResultRow[];"
                        ELSE "ResultRow | null;"))

\* C3: the text declares <Name>Params exactly when some parameter has mode IN or
\* INOUT; the interface holds exactly those parameters, in their order, each
\* typed by the mapper and optional exactly when has_default is true.
C3_ParamsInterface ==
    Generated =>
        LET lines == LinesOf(fnCode)
            inputs == SelectSeq(fn.parameters,
                                LAMBDA q : q.mode = "IN" \/ q.mode = "INOUT")
        IN  /\ HasLine(lines, ParamsHeader) <=> inputs # <<>>
            /\ CountLines(lines, ParamsHeader) <= 1
            /\ inputs # <<>> =>
                  DeclBody(lines, ParamsHeader)
                      = [i \in 1..Len(inputs) |->
                            FieldLine(inputs[i].name, inputs[i].has_default,
                                      inputs[i].type)]

\* an OUT parameter is left out, an INOUT one kept, a defaulted one optional
C3_Witness ==
    /\ Generated
    /\ fn.parameters = <<Param("o_count", "integer", "OUT", FALSE),
                         Param("io_total", "numeric(10,2)", "INOUT", FALSE)>>
    /\ DeclBody(LinesOf(fnCode), ParamsHeader) = <<"  io_total: number;">>

\* C4: with return_columns absent or empty and return_type present and not
\* void, <Name>Result is the mapped return type followed by [] for the kind set
\* and by " | null" for every other kind, and it is the only Result declaration.
C4_ScalarResult ==
    (Generated /\ ~ColumnsGiven /\ ~ReturnTypeAbsent /\ ~ReturnTypeVoid) =>
        LET lines == LinesOf(fnCode)
        IN  /\ HasLine(lines, ResultTypePrefix
                    \o mapSqlTypeToTs(fn.return_type, Undefined)
                    \o (IF fn.type = "set" THEN "[];" ELSE " | null;"))
            /\ ResultDeclarations(lines) = 1
            /\ ~HasLine(lines, ResultRowHeader)

C4_Witness ==
    /\ Generated
    /\ fn.name = "get_users" /\ fnSuffix = ""
    /\ fn.type = "scalar" /\ fn.return_type = "json" /\ ~ColumnsGiven
    /\ HasLine(LinesOf(fnCode),
               "export type GetUsersResult = Record<string, unknown> | null;")

\* C5: for a procedure whose return_type is absent or void the text holds
\* exactly one <Name>Result declaration: an interface with one required field
\* per OUT or INOUT parameter, in order, when there is one, and
\* "export type <Name>Result = void" when there is none.
C5_ProcedureResult ==
    (Generated /\ fn.object_type = "procedure"
               /\ (ReturnTypeAbsent \/ ReturnTypeVoid)) =>
        LET lines == LinesOf(fnCode)
            outs == SelectSeq(fn.parameters,
                              LAMBDA q : q.mode = "OUT" \/ q.mode = "INOUT")
        IN  /\ ResultDeclarations(lines) = 1
            /\ IF outs # <<>>
               THEN /\ HasLine(lines, ResultHeader)
                    /\ DeclBody(lines, ResultHeader)
                          = [i \in 1..Len(outs) |->
                                FieldLine(outs[i].name, FALSE, outs[i].type)]
               ELSE HasLine(lines, ResultTypePrefix \o "void;")

\* an IN parameter stays out of the Result, the OUT one is in it
C5_Witness ==
    /\ Generated
    /\ fn.object_type = "procedure" /\ fn.return_type = "void"
    /\ fn.parameters = <<Param("p_id", "uuid", "IN", FALSE),
                         Param("o_count", "integer", "OUT", FALSE)>>
    /\ DeclBody(LinesOf(fnCode), ResultHeader) = <<"  o_count: number;">>

-----------------------------------------------------------------------------
(* Claims about generateSchemaTypes, under SpecSchema *)

\* C1 (as claimed): two calls of generateSchemaTypes on the same schema, made
\* at any two points in time, return the same text.
C1_SameTextAtAnyTime ==
    \A i, j \in 1..Len(history) : history[i].content = history[j].content

-----------------------------------------------------------------------------
(* Claims about the table, query and view generators, under SpecTables *)

TableGenerated == tableCode # NoCall
QueryGenerated == queryCode # NoCall
ViewGenerated == viewCode # NoCall

TableHeader == "export interface " \o toPascalCase(tableArg.name) \o " {"
QueryHeader == "export interface " \o toPascalCase(tableArg.name) \o "QueryParams {"
ViewHeader == "export interface " \o toPascalCase(tableArg.name) \o "View {"

\* the lines of a declaration body that are fields, not annotations
IsAnnotationLine(l) == startsWith(l, "  /**")
FieldLinesOf(body) == SelectSeq(body, LAMBDA l : ~IsAnnotationLine(l))

\* the text is one declaration: its header line first, and one closing line
IsOneDeclaration(lines, header) ==
    /\ lines[1] = header
    /\ CountLines(lines, "}") = 1
    /\ Cardinality({i \in 1..Len(lines) : startsWith(lines[i], "export ")}) = 1

\* C11: generateTableInterface emits one interface named toPascalCase(table.name)
\* whose fields are exactly the columns, in column order; a field has the
\* optional marker ? exactly when the column is nullable and is typed by
\* mapSqlTypeToTs(column.type), a type the mapper does not know giving unknown.
C11_TableFields ==
    TableGenerated =>
        LET lines == LinesOf(tableCode)
            cols == tableArg.columns
        IN  /\ IsOneDeclaration(lines, TableHeader)
            /\ FieldLinesOf(DeclBody(lines, TableHeader))
                  = [i \in 1..Len(cols) |->
                        FieldLine(cols[i].name, cols[i].nullable, cols[i].type)]

\* a nullable column and one of an unmappable type, in their order
C11_Witness ==
    /\ TableGenerated
    /\ tableArg.name = "api-keys"
    /\ FieldLinesOf(DeclBody(LinesOf(tableCode), "export interface ApiKeys {"))
          = <<"  bio?: string;", "  role: unknown;">>

C16_ViewLikeTable ==
    (TableGenerated /\ ViewGenerated) =>
        LET viewLines == LinesOf(viewCode)
            tableLines == LinesOf(tableCode)
        IN  /\ IsOneDeclaration(viewLines, ViewHeader)
            /\ DeclBody(viewLines, ViewHeader)
                  = FieldLinesOf(DeclBody(tableLines, TableHeader))
            /\ \A i \in 1..Len(viewLines) : ~IsAnnotationLine(viewLines[i])
            /\ viewLines[1] # tableLines[1]

\* the table's text annotates a field, the view's text has the field alone
C16_Witness ==
    /\ TableGenerated /\ ViewGenerated
    /\ tableArg.name = "users"
    /\ LinesOf(tableCode) = <<"export interface Users {", "  /** Primary key */",
                               "  id: string;", "}", "">>
    /\ LinesOf(viewCode) = <<"export interface UsersView {", "  id: string;", "}", "">>

\* the annotation the claim describes: the applicable parts, in the order
\* primary key, reference, enum
AnnotationParts(column) ==
    (IF column.is_pk THEN <<"Primary key">> ELSE <<>>)
    \o (IF ~column.references.isNull
        THEN <<"References " \o column.references.schema \o "."
               \o column.references.table \o "." \o column.references.column>>
        ELSE <<>>)
    \o (IF column.is_enum THEN <<"Enum type">> ELSE <<>>)

\* the lines a column is expected to give: its annotation, when it has a part,
\* and its field
ExpectedColumnLines(column) ==
    LET parts == AnnotationParts(column)
    IN  (IF parts = <<>> THEN <<>>
         ELSE <<"  /** " \o joinWith(parts, ". ") \o " */">>)
        \o <<FieldLine(column.name, column.nullable, column.type)>>

RECURSIVE ExpectedBody(_)
ExpectedBody(columns) ==
    IF columns = <<>> THEN <<>>
    ELSE ExpectedColumnLines(Head(columns)) \o ExpectedBody(Tail(columns))

\* C17: in a table declaration a field is preceded by an annotation line exactly
\* when its column is a primary key, has a reference or is enum-backed; the
\* annotation is the applicable parts "Primary key", "References s.t.c",
\* "Enum type", in that order, joined with ". "; a column with none of them has
\* no annotation line.
C17_Annotations ==
    TableGenerated =>
        DeclBody(LinesOf(tableCode), TableHeader) = ExpectedBody(tableArg.columns)

\* a column with all three parts, after one with none
C17_Witness ==
    /\ TableGenerated
    /\ DeclBody(LinesOf(tableCode), TableHeader)
          = << "  bio?: string;",
               "  /** Primary key. References public.tags.name. Enum type */",
               "  tags?: string[];" >>

-----------------------------------------------------------------------------
(* Claims about the order of a schema module, under SpecSchema *)

\* a line of a declaration: not blank, not a section comment, not a line of the
\* header comment (an annotation of a field is indented and counts)
IsDeclarationLine(l) ==
    /\ l # ""
    /\ ~startsWith(l, "//")
    /\ ~startsWith(l, "/**")
    /\ ~startsWith(l, " *")

DeclarationLines(text) == SelectSeq(LinesOf(text), IsDeclarationLine)
ExportLines(text) == SelectSeq(LinesOf(text), LAMBDA l : startsWith(l, "export "))

RECURSIVE FlattenLines(_)
FlattenLines(texts) ==
    IF texts = <<>> THEN <<>>
    ELSE DeclarationLines(Head(texts)) \o FlattenLines(Tail(texts))

\* the declarations the claim lists, in its order: per table the table's and
\* then its QueryParams, the views, the enums, the functions, the procedures
\* under the suffix Procedure
ExpectedDeclarations(sch) ==
    LET procs == IF sch.procedures.isNull THEN <<>> ELSE sch.procedures.items
    IN  FlattenLines([i \in 1..(2 * Len(sch.tables)) |->
                        IF i % 2 = 1
                        THEN generateTableInterface(sch.tables[(i + 1) \div 2])
                        ELSE generateQueryInterface(sch.tables[i \div 2])])
        \o FlattenLines([i \in 1..Len(sch.views) |->
                            generateViewInterface(sch.views[i])])
        \o FlattenLines([i \in 1..Len(sch.enums) |-> generateEnum(sch.enums[i])])
        \o FlattenLines([i \in 1..Len(sch.functions) |->
                            generateFunctionTypes(sch.functions[i], "")])
        \o FlattenLines([i \in 1..Len(procs) |->
                            generateFunctionTypes(procs[i], "Procedure")])

\* C13: the text of generateSchemaTypes holds the declarations in a fixed order:
\* each table's declaration immediately followed by that table's QueryParams,
\* then the views, the enums, the functions and the procedures (named with the
\* suffix Procedure), each group in the order of its mapping and every object's
\* declarations exactly once.
C13_DeclarationOrder ==
    \A k \in 1..Len(history) :
        DeclarationLines(history[k].content) = ExpectedDeclarations(schema)

\* a schema with two tables and an object of every other group
C13_Witness ==
    /\ Len(history) >= 1
    /\ ExportLines(history[1].content)
          = << "export interface Users {",
               "export interface UsersQueryParams {",
               "export interface ApiKeys {",
               "export interface ApiKeysQueryParams {",
               "export interface ActiveUsersView {",
               "export enum UserRole {",
               "export interface GetUsersParams {",
               "export interface GetUsersResultRow {",
               "export type GetUsersResult = GetUsersResultRow[];",
               "export interface UpdateStatusProcedureParams {",
               "export interface UpdateStatusProcedureResult {" >>

\* l holds sub somewhere
Contains(l, sub) ==
    \E i \in 1..(Len(l) - Len(sub) + 1) : SubSeq(l, i, i + Len(sub) - 1) = sub

\* C19: absent optional metadata is never an error. generateTableInterface on
\* columns without references returns text, with a References annotation for
\* the columns that have one and for no other; generateFunctionTypes on a
\* function without return_columns, without return_type or with parameters
\* without default_value returns text in which the missing item is a missing
\* feature: no ResultRow without return_columns, no Result for a function
\* without return_type (for a procedure the Result of its OUT parameters), and
\* input parameters optional by has_default alone.
C19_AbsentIsNoError ==
    /\ TableGenerated =>
          LET lines == LinesOf(tableCode)
          IN  /\ tableCode # TypeError
              /\ Cardinality({i \in 1..Len(lines) : Contains(lines[i], "References ")})
                    = Cardinality({i \in 1..Len(tableArg.columns) :
                                      ~tableArg.columns[i].references.isNull})
    /\ Generated =>
          LET lines == LinesOf(fnCode)
          IN  /\ fnCode # TypeError
              /\ fn.return_columns.isNull => ~HasLine(lines, ResultRowHeader)
              /\ IsNullish(fn.return_type) =>
                    ResultDeclarations(lines)
                        = (IF fn.object_type = "procedure" THEN 1 ELSE 0)
              /\ \A i \in 1..Len(fn.parameters) :
                    LET q == fn.parameters[i]
                    IN  (q.default_value = Undefined /\ q.mode \in {"IN", "INOUT"}) =>
                            HasLine(lines, FieldLine(q.name, q.has_default, q.type))

\* a table whose columns have no references and a function with neither a
\* return type nor return columns: both calls returned text
C19_Witness ==
    /\ TableGenerated /\ Generated
    /\ Len(tableArg.columns) = 2
    /\ \A i \in 1..2 : tableArg.columns[i].references.isNull
    /\ fn.return_type = Null /\ fn.return_columns.isNull
    /\ fn.object_type = "function"
    /\ fnCode = "export interface GetUsersParams {\n  p_id: string;\n}\n\n"
    /\ tableCode # TypeError

-----------------------------------------------------------------------------
(* Claims about generateEnum, under SpecEnum *)

EnumGenerated == enumCode # NoCall

EnumHeader == "export enum " \o toPascalCase(enumArg.name) \o " {"

\* every character outside [A-Za-z0-9_] replaced by "_"
RECURSIVE Underscored(_)
Underscored(value) ==
    IF value = "" THEN ""
    ELSE (IF Char(value, 1) \in DigitChars \cup LowerChars \cup UpperChars \cup {"_"}
          THEN Char(value, 1) ELSE "_")
         \o Underscored(From(value, 2))

\* the identifier as the claim derives it: "_" before a leading digit
ClaimedIdentifier(value) ==
    IF Char(Underscored(value), 1) \in DigitChars
    THEN "_" \o Underscored(value) ELSE Underscored(value)

\* the identifier of the code: one more "_" before a name that is, in lower
\* case, one of delete, default, public, private, enum
KeywordSafeIdentifier(value) ==
    IF toLowerCase(ClaimedIdentifier(value))
          \in {"delete", "default", "public", "private", "enum"}
    THEN "_" \o ClaimedIdentifier(value) ELSE ClaimedIdentifier(value)

\* C14 (as claimed): one member per entry of values, in order and without
\* deduplication; the identifier is the value with every character outside
\* [A-Za-z0-9_] replaced by "_", and "_" prepended if that starts with a digit;
\* the member's value is the original string.
C14_MembersAsClaimed ==
    EnumGenerated =>
        DeclBody(LinesOf(enumCode), EnumHeader)
            = [i \in 1..Len(enumArg.values) |->
                  "  " \o ClaimedIdentifier(enumArg.values[i]) \o " = \""
                  \o enumArg.values[i] \o "\","]

\* C14 (amended): one member per entry of values, in order and without
\* deduplication; the identifier is the value with every character outside
\* [A-Za-z0-9_] replaced by "_", "_" prepended if that starts with a digit, and
\* one more "_" prepended if the result is, compared in lower case, one of
\* delete, default, public, private, enum; the member's value is the original
\* string.
C14_Members ==
    EnumGenerated =>
        LET lines == LinesOf(enumCode)
        IN  /\ lines[1] = EnumHeader
            /\ DeclBody(lines, EnumHeader)
                  = [i \in 1..Len(enumArg.values) |->
                        "  " \o KeywordSafeIdentifier(enumArg.values[i]) \o " = \""
                        \o enumArg.values[i] \o "\","]

\* a keyword, and the value of the spec's example
C14_Witness ==
    /\ EnumGenerated
    /\ enumArg.values = <<"public", "co-op's dues">>
    /\ DeclBody(LinesOf(enumCode), EnumHeader)
          = << "  _public = \"public\",",
               "  co_op_s_dues = \"co-op's dues\"," >>

-----------------------------------------------------------------------------
(* Claims about toPascalCase, under SpecPascal *)

PascalCalled == pascal # NoCall

\* The transform as the claim words it, read off character by character: a
\* character outside [A-Za-z0-9] ends the word, the first character of a word
\* is the upper case of its lower case, every other one is lowered.
RECURSIVE LowerThenCapitalize(_, _)
LowerThenCapitalize(s, atWordStart) ==
    IF s = "" THEN ""
    ELSE LET c == Char(s, 1)
         IN  IF ~(c \in DigitChars \cup LowerChars \cup UpperChars)
             THEN LowerThenCapitalize(From(s, 2), TRUE)
             ELSE (IF atWordStart THEN charToUpper(charToLower(c))
                   ELSE charToLower(c))
                  \o LowerThenCapitalize(From(s, 2), FALSE)

AllDelimiters(s) ==
    \A i \in 1..Len(s) : ~(Char(s, i) \in DigitChars \cup LowerChars \cup UpperChars)

\* C15: toPascalCase(s) is, for every s, the words of s (split on the maximal
\* runs of characters outside [A-Za-z0-9]) each lowered and then capitalized,
\* concatenated; user_profiles gives UserProfiles, api-keys gives ApiKeys,
\* CamelCaseAlready gives Camelcasealready, an empty or all-delimiter s gives "".
C15_PascalCase ==
    PascalCalled =>
        /\ pascal = LowerThenCapitalize(strArg, TRUE)
        /\ (strArg = "user_profiles" => pascal = "UserProfiles")
        /\ (strArg = "api-keys" => pascal = "ApiKeys")
        /\ (strArg = "CamelCaseAlready" => pascal = "Camelcasealready")
        /\ (AllDelimiters(strArg) => pascal = "")

C15_Witness ==
    /\ PascalCalled
    /\ strArg = "CamelCaseAlready"
    /\ pascal = "Camelcasealready"

-----------------------------------------------------------------------------
(* Claims about generateTypes and the index, under SpecTypes *)

\* the unit a re-export statement names: export * from './<unit>';
ExportPrefix == "export * from './"
UnitOf(line) == SubSeq(line, Len(ExportPrefix) + 1, Len(line) - 2)

WasWritten(name) == \E k \in 1..Len(written) : written[k] = name
HoldsText(name) == fs.entries[name] # NoFile /\ fs.entries[name] # DirEntry

\* C18: once generateTypes has succeeded, index.ts holds exactly one re-export
\* per schema, in list order, each naming ./types-<schema.name>; that unit is the
\* name of the file written for the schema, and every unit the index names is a
\* file written in this run.
C18_IndexMatchesFiles ==
    pc = "done" =>
        LET exports == ExportLines(fs.entries[indexFileName])
        IN  /\ thrown = NoError
            /\ exports = [i \in 1..Len(schemas) |->
                             "export * from './types-" \o schemas[i].name \o "';"]
            /\ \A i \in 1..Len(exports) :
                  /\ startsWith(exports[i], ExportPrefix)
                  /\ UnitOf(exports[i]) \o ".ts" = typesFileName(schemas[i])
                  /\ WasWritten(UnitOf(exports[i]) \o ".ts")
                  /\ HoldsText(UnitOf(exports[i]) \o ".ts")
            /\ written[Len(written)] = indexFileName

\* two schemas, re-exported in the order of the list
C18_Witness ==
    /\ pc = "done"
    /\ written = <<"types-auth.ts", "types-public.ts", "index.ts">>
    /\ ExportLines(fs.entries[indexFileName])
          = <<"export * from './types-auth';", "export * from './types-public';">>

\* C20: when outputDir is absent generateTypes creates it, and when it is
\* already a directory the directory step does not fail; in both cases the call
\* goes on to the per-schema writes: it is in its loop or past it, each round
\* wrote its file, and if it failed it failed in a write.
C20_OutputDirEnsured ==
    (pc # "idle" /\ fs.kindAtCall \in {"absent", "directory"}) =>
        /\ fs.kind = "directory"
        /\ thrown \notin {"AlreadyExists", "PermissionDenied", "NotFound",
                           "NotADirectory"}
        /\ pc \in {"write", "done"} \/ (pc = "failed" /\ thrown = "IsADirectory")
        /\ \A i \in 1..cursor : written[i] = typesFileName(schemas[i])
        /\ pc = "done" => cursor = Len(schemas)

\* the directory was there, with a file of an earlier run, and the call wrote
\* its files into it
C20_Witness ==
    /\ pc = "done"
    /\ fs.kindAtCall = "directory"
    /\ fs.entries["types-public.ts"] = "// stale\n"
    /\ written = <<"types-auth.ts", "index.ts">>

-----------------------------------------------------------------------------
(* Claims about the HTTP client and the CRUD operations *)

\* the parsed body of the response, where it has one
ParsedBody == response.body.value
Answered == reqPc = "settled" /\ response # NoResponse

\* C22: a request that was answered has settled by the status of the answer: a
\* non-2xx response rejects with a PrismError of code "HTTP_ERROR", the status
\* of the response, and for details the parsed body, or null when the body could
\* not be parsed (or its read was cut off); a 2xx response resolves to the
\* parsed body.
C22_StatusDecidesOutcome ==
    Answered =>
        IF responseOk(response)
        THEN /\ outcome.state = "fulfilled"
             /\ response.body.parses
             /\ outcome.value = ParsedBody
        ELSE /\ outcome.state = "rejected"
             /\ outcome.error.name = "PrismError"
             /\ outcome.error.code = "HTTP_ERROR"
             /\ outcome.error.status = response.status
             /\ outcome.error.details
                   = IF response.body.parses /\ timer # "fired"
                     THEN ParsedBody ELSE JsonNull

\* what the GET of findOne was answered with
LookupRows == IF response.body.parses THEN response.body.value.items ELSE <<>>
YieldsNoRecord ==
    response.body.parses /\ response.body.value.type = "array" /\ LookupRows = <<>>
YieldsRecords ==
    responseOk(response) /\ response.body.parses
    /\ response.body.value.type = "array" /\ LookupRows # <<>>

\* C23: findOne(id) has sent the GET of findAll with the id as its filter; when
\* the answer holds records it resolves to the first of them; when the answer
\* holds no record (the empty list, under 200 or under 404) it rejects with a
\* message containing "No record found with ID"; and it never resolves to
\* undefined.
C23_FirstRecordOrNotFound ==
    crudPc = "done" =>
        /\ sentParams = <<<<"id", idToString(idArg)>>>>
        /\ YieldsRecords => found.state = "fulfilled" /\ found.value = LookupRows[1]
        /\ YieldsNoRecord =>
              /\ found.state = "rejected"
              /\ Contains(found.error.message, "No record found with ID")
        /\ ~(found.state = "fulfilled" /\ found.value = UndefinedRow)

\* C29: the timer is armed when the request is made and is no longer armed once
\* the request has settled, however it settled; the abort fires only while the
\* fetch or the body read is pending, and only after the delay asked for, or
\* 10000 ms where none was asked for, has elapsed.
C29_TimerWithinRequest ==
    /\ [](/\ reqPc = "idle" => timer = "none"
          /\ reqPc \in {"fetching", "reading"} => timer = "armed"
          /\ reqPc = "settled" => timer \in {"cleared", "fired"})
    /\ [][(timer' = "fired" /\ timer # "fired") =>
              /\ reqPc \in {"fetching", "reading"}
              /\ reqPc' = "settled"
              /\ elapsed >= (IF reqArgs.timeout.given THEN reqArgs.timeout.ms
                             ELSE 10000)]_vars

\* a request answered with an error status, its timer cancelled, at a time when
\* the timer would have gone off
C29_Witness ==
    /\ reqPc = "settled"
    /\ outcome.state = "rejected"
    /\ outcome.error.code = "HTTP_ERROR"
    /\ timer = "cleared"
    /\ elapsed > timeoutOf(reqArgs)

-----------------------------------------------------------------------------
(* Claims about PrismTs *)

CallIds == 1..Len(calls)
InitIds == 1..Len(inits)
Returned(c) == calls[c].state = "fulfilled"
\* the list this.schemas held when call c returned
ListOf(c) == inits[calls[c].source].delivered
NamedSchemas(list) == {i \in 1..Len(list) : list[i].name = schemaNameArg}
NamedTables(sch) == {t \in 1..Len(sch.tables) : sch.tables[t].name = tableNameArg}

\* C21: a call that returned after the initialization resolved gives, for
\* getSchemas, the list the service delivered, in its order; for getSchema, the
\* first schema of that list with the name asked for, or undefined; for
\* getTable, the table of that name in that schema, or undefined when the schema
\* or the table is not there.
C21_LookupsAsClaimed ==
    \A c \in CallIds :
        Returned(c) =>
            LET list == ListOf(c)
                named == NamedSchemas(list)
                result == calls[c].result
            IN  /\ calls[c].source \in InitIds
                /\ calls[c].op = "getSchemas" =>
                      result.kind = "schemas" /\ result.value = list
                /\ calls[c].op = "getSchema" =>
                      IF named = {} THEN result.kind = "undefined"
                      ELSE /\ result.kind = "schema"
                           /\ \E i \in named :
                                 /\ result.value[1] = list[i]
                                 /\ \A j \in named : i <= j
                /\ calls[c].op = "getTable" =>
                      IF named = {} \/ NamedTables(list[Min(named)]) = {}
                      THEN result.kind = "undefined"
                      ELSE /\ result.kind = "table"
                           /\ result.value[1].name = tableNameArg
                           /\ \E t \in NamedTables(list[Min(named)]) :
                                 result.value[1] = list[Min(named)].tables[t]

\* C24: as long as no clearCache() has resolved, the schema endpoint has been
\* requested at most once: every call that had to wait awaits the promise of
\* that one request, and a call that did not wait was made after the request
\* had succeeded and returned without one.
C24_SingleFetch ==
    ResolvedClears(clears) = 0 =>
        /\ Len(inits) <= 1
        /\ \A c \in CallIds :
              /\ calls[c].awaits \in {0, 1}
              /\ calls[c].awaits = 1 => Len(inits) = 1
              /\ calls[c].awaits = 0 =>
                    /\ calls[c].initsBefore = 1
                    /\ inits[1].state = "fulfilled"
                    /\ Returned(c)

\* two callers arrived while the initialization was in flight and both went on
\* with its one result
C24_Witness ==
    /\ clears = <<>>
    /\ Len(inits) = 1
    /\ Len(calls) = 2
    /\ calls[1].awaits = 1 /\ calls[2].awaits = 1
    /\ calls[1].op = "initialize" /\ calls[2].op = "getSchemas"
    /\ Returned(1) /\ Returned(2)
    /\ calls[2].result.value = inits[1].delivered

\* C26: when a clearCache() call resolves, initialized is false and no promise
\* is stored; when it rejects, initialized, the stored promise and the stored
\* list are as before; and a getSchemas() call that is the first call made
\* after a clearCache() resolved starts a schema fetch of its own and returns
\* what that fetch delivered.
C26_ClearCacheResets ==
    /\ [][\A j \in 1..Len(clears) :
             (clears[j].state = "pending" /\ clears'[j].state = "fulfilled") =>
                 initialized' = FALSE /\ initPromise' = 0]_vars
    /\ [][\A j \in 1..Len(clears) :
             (clears[j].state = "pending" /\ clears'[j].state = "rejected") =>
                 UNCHANGED <<initialized, initPromise, cachedSchemas>>]_vars
    /\ [](\A c \in CallIds :
             (/\ calls[c].op = "getSchemas"
              /\ calls[c].clearsBefore > (IF c = 1 THEN 0 ELSE calls[c - 1].clearsBefore))
             => /\ calls[c].awaits = calls[c].initsBefore + 1
                /\ Returned(c) =>
                      calls[c].result.value = inits[calls[c].awaits].delivered)

\* C27: once a schema fetch has failed, and while no clearCache() has resolved
\* since it was started, initialized is false, no further schema request has
\* been made, and every call made since is rejected with the error of that
\* fetch.
C27_FailureIsKept ==
    \A k \in InitIds :
        (inits[k].state = "rejected"
         /\ inits[k].clearsBefore = ResolvedClears(clears)) =>
            /\ ~initialized
            /\ Len(inits) = k
            /\ \A c \in CallIds :
                  (calls[c].awaits = k \/ calls[c].initsBefore >= k) =>
                      /\ calls[c].state = "rejected"
                      /\ calls[c].error = inits[k].error

\* C28: a getSchemas() call made after a clearCache() resolved never returns a
\* list whose fetch was started before that clearCache() resolved, and
\* initialized is never true by a fetch started before the last clearCache()
\* that resolved.
C28_NoStaleMetadata ==
    /\ \A c \in CallIds :
          (calls[c].op = "getSchemas" /\ Returned(c)) =>
              inits[calls[c].source].clearsBefore >= calls[c].clearsBefore
    /\ initialized =>
          /\ loadedBy \in InitIds
          /\ inits[loadedBy].clearsBefore = ResolvedClears(clears)

-----------------------------------------------------------------------------
(* Claims about the order of the writes of generateTypes *)

\* the files a run writes when nothing fails, in the order of the writes
ExpectedWrites ==
    [i \in 1..Len(schemas) |-> typesFileName(schemas[i])] \o <<indexFileName>>

\* the file the run was about to write when it stopped
NextWrite == ExpectedWrites[Len(written) + 1]

\* C25: the files are written one at a time, the per-schema files in the order
\* of the list and index.ts after all of them; a run that failed rejects with
\* the error of the step that failed (the directory that could not be made, the
\* path that is no directory, the name taken by a directory), has not written
\* index.ts, writes nothing after the failure, and the files it wrote before
\* hold their text.
C25_WritesInOrderUntilFailure ==
    /\ [](/\ Len(written) <= Len(ExpectedWrites)
          /\ \A n \in 1..Len(written) :
                written[n] = ExpectedWrites[n] /\ HoldsText(written[n])
          /\ thrown # NoError <=> pc = "failed"
          /\ pc = "done" <=> Len(written) = Len(ExpectedWrites)
          /\ pc = "failed" =>
                /\ Len(written) <= Len(schemas)
                /\ thrown = CASE fs.kind = "forbidden" -> "PermissionDenied"
                              [] fs.kind = "file" -> "NotADirectory"
                              [] OTHER -> "IsADirectory"
                /\ fs.kind = "directory" => fs.entries[NextWrite] = DirEntry
                /\ fs.kind # "directory" => written = <<>>)
    /\ [][/\ Len(written') <= Len(written) + 1
          /\ pc = "failed" => UNCHANGED <<written, fs, pc, thrown>>]_vars

\* the first file was written, the second could not be: the run failed with
\* that error, and the first file is in place
C25_Witness ==
    /\ pc = "failed"
    /\ schemas = <<PublicSchema, AuthSchema>>
    /\ written = <<"types-public.ts">>
    /\ thrown = "IsADirectory"
    /\ HoldsText("types-public.ts")
    /\ fs.entries[indexFileName] = NoFile

-----------------------------------------------------------------------------
(* Claims about the names of the declarations *)

\* the text up to its first space
RECURSIVE firstWord(_)
firstWord(s) ==
    IF s = "" \/ Head(s) = Head(" ") THEN ""
    ELSE SubSeq(s, 1, 1) \o firstWord(Tail(s))

DeclarationKeywords == {"export interface ", "export enum ", "export type "}

\* the name a line declares: what follows `export interface`, `export enum` or
\* `export type`
DeclaredName(l) ==
    LET kw == CHOOSE k \in DeclarationKeywords : startsWith(l, k)
    IN  firstWord(SubSeq(l, Len(kw) + 1, Len(l)))

DeclaredNames(text) ==
    LET heads == SelectSeq(LinesOf(text),
                           LAMBDA l : \E k \in DeclarationKeywords : startsWith(l, k))
    IN  [i \in 1..Len(heads) |-> DeclaredName(heads[i])]

DistinctNames(objects) ==
    \A i, j \in 1..Len(objects) : i # j => objects[i].name # objects[j].name

\* the names of the objects are distinct within each mapping of the schema
DistinctWithinMappings(sch) ==
    /\ DistinctNames(sch.tables)
    /\ DistinctNames(sch.views)
    /\ DistinctNames(sch.enums)
    /\ DistinctNames(sch.functions)
    /\ sch.procedures.isNull \/ DistinctNames(sch.procedures.items)

\* C30: in the module generated for a schema whose object names are distinct
\* within each of its mappings, no two declarations have the same name.
C30_DistinctDeclarationNames ==
    \A k \in 1..Len(history) :
        DistinctWithinMappings(schema) =>
            LET names == DeclaredNames(history[k].content)
            IN  \A i, j \in 1..Len(names) : i # j => names[i] # names[j]

=============================================================================
